---- MODULE Spec2Model ----
(***************************************************************************)
(* Rimborso KM, browser side: the address autocomplete controller          *)
(* (address-autocomplete.js) and the trip create / edit forms              *)
(* (trasferte.js).                                                         *)
(*                                                                         *)
(* Strings the code inspects character by character (input values, result  *)
(* names, postal codes, numeric fields) are sequences of one-character     *)
(* strings.  A JavaScript value that may or may not be a string is a       *)
(* record [t |-> "str" | "num" | "undef", s |-> characters].               *)
(***************************************************************************)
EXTENDS Integers, Sequences, FiniteSets, TLC

\* ------------------------------------------------------------------ bounds

\* Input events dispatched on the bound input in one behaviour.
MaxInputs == 3

\* Operations the user starts on the trips page in one behaviour (a submit
\* that passes validation, an opening of the edit dialog), and likewise on the
\* clients page (an edit, a confirmed deletion, a submit that is sent).
MaxOps == 2

\* Fields of a submitted form that differ from a completely filled-in form.
MaxDeviations == 1

\* Trips the backend holds.
MaxTrips == 3

\* Exports and downloads the user starts on the archive page in one behaviour.
MaxExports == 1

\* Advanced searches and search resets the user starts on the archive page in
\* one behaviour.
MaxSearches == 2

\* ------------------------------------------------------------- characters

RECURSIVE TrimStart(_)
TrimStart(s) ==
    IF s # <<>> /\ Head(s) = " " THEN TrimStart(Tail(s)) ELSE s

RECURSIVE TrimEnd(_)
TrimEnd(s) ==
    IF s # <<>> /\ s[Len(s)] = " " THEN TrimEnd(SubSeq(s, 1, Len(s) - 1)) ELSE s

\* String.prototype.trim
Trim(s) == TrimEnd(TrimStart(s))

Str(s) == [t |-> "str", s |-> s]
Undef == [t |-> "undef", s |-> <<>>]
Num == [t |-> "num", s |-> <<>>]

\* !v for the values above: undefined and the empty string are falsy; Num
\* stands for a non-zero number.
Falsy(v) == v.t = "undef" \/ (v.t = "str" /\ v.s = <<>>)

\* The value a throwing expression yields (TypeError: x.replace is not a
\* function): no sequence of characters equals it.
Thrown == <<"#TypeError">>

EscapeChar(c) ==
    CASE c = "&" -> <<"&", "a", "m", "p", ";">>
      [] c = "<" -> <<"&", "l", "t", ";">>
      [] c = ">" -> <<"&", "g", "t", ";">>
      [] c = "\"" -> <<"&", "q", "u", "o", "t", ";">>
      [] c = "'" -> <<"&", "#", "0", "3", "9", ";">>
      [] OTHER -> <<c>>

\* A plausible slip: the double quote is left unescaped.
EscapeCharNoQuote(c) ==
    IF c = "\"" THEN <<c>> ELSE EscapeChar(c)

RECURSIVE EscapeChars(_)
EscapeChars(s) ==
    IF s = <<>> THEN <<>> ELSE EscapeChar(Head(s)) \o EscapeChars(Tail(s))

RECURSIVE EscapeCharsNoQuote(_)
EscapeCharsNoQuote(s) ==
    IF s = <<>> THEN <<>>
    ELSE EscapeCharNoQuote(Head(s)) \o EscapeCharsNoQuote(Tail(s))

escapeHtmlNoQuote(unsafe) ==
    IF Falsy(unsafe) THEN <<>>
    ELSE IF unsafe.t # "str" THEN Thrown
    ELSE EscapeCharsNoQuote(unsafe.s)

escapeHtml(unsafe) ==
    IF Falsy(unsafe) THEN <<>>
    ELSE IF unsafe.t # "str" THEN Thrown
    ELSE EscapeChars(unsafe.s)

\* The character references the HTML parser decodes in attribute values and
\* in text.
Entities ==
    { <<"&", <<"&", "a", "m", "p", ";">> >>,
      <<"<", <<"&", "l", "t", ";">> >>,
      <<">", <<"&", "g", "t", ";">> >>,
      <<"\"", <<"&", "q", "u", "o", "t", ";">> >>,
      <<"'", <<"&", "#", "0", "3", "9", ";">> >> }

StartsWith(s, p) == Len(s) >= Len(p) /\ SubSeq(s, 1, Len(p)) = p

\* What the parser reads from markup up to the first character of `stops`,
\* decoding character references.
RECURSIVE HtmlDecodeUntil(_, _)
HtmlDecodeUntil(s, stops) ==
    IF s = <<>> \/ Head(s) \in stops THEN <<>>
    ELSE IF \E e \in Entities : StartsWith(s, e[2])
    THEN LET e == CHOOSE e \in Entities : StartsWith(s, e[2])
         IN  <<e[1]>> \o HtmlDecodeUntil(SubSeq(s, Len(e[2]) + 1, Len(s)), stops)
    ELSE <<Head(s)>> \o HtmlDecodeUntil(Tail(s), stops)

\* data-value="${...}": the attribute value ends at the first raw double quote.
AttrValue(markup) == HtmlDecodeUntil(markup, {"\""})

\* <strong>${...}</strong>: the text ends at the first raw "<".
TextContent(markup) == HtmlDecodeUntil(markup, {"<"})

\* ------------------------------------------------- geocoding client

\* A raw record of the geocoding service's answer; isNull marks a null
\* element of the array.
Raw(name, type) == [isNull |-> FALSE, display_name |-> name, type |-> type]
NullRaw == [isNull |-> TRUE, display_name |-> Undef, type |-> Undef]

\* Bodies a successful answer may carry: JSON arrays of raw records.
Bodies ==
    { <<>>,
      << Raw(Str(<<"a", "&">>), Str(<<"h">>)), Raw(Str(<<"\"", "b">>), Undef) >>,
      << Raw(Str(<<"&", "l", "t", ";">>), Undef) >>,
      << Raw(Num, Undef) >>,
      << NullRaw >> }

\* What the network call of one request comes to.
Outcomes ==
    [kind : {"abort", "network", "status", "badjson", "notarray"}, body : {<<>>}]
        \cup [kind : {"array"}, body : Bodies]

FailureKinds == {"abort", "network", "status", "badjson", "notarray"}

\* r => ({name: r.display_name, ..., type: r.type || 'address'})
Normalize(r) ==
    [name |-> r.display_name,
     type |-> IF Falsy(r.type) THEN Str(<<"a", "d", "d", "r", "e", "s", "s">>) ELSE r.type]

\* The try block: what it returns, or the name of what it throws.
TryBlock(o) ==
    IF o.kind = "abort" THEN [throws |-> "AbortError", ret |-> <<>>]
    ELSE IF o.kind = "network" THEN [throws |-> "TypeError", ret |-> <<>>]
    ELSE IF o.kind = "status" THEN [throws |-> "", ret |-> <<>>]
    ELSE IF o.kind = "badjson" THEN [throws |-> "SyntaxError", ret |-> <<>>]
    ELSE IF o.kind = "notarray" THEN [throws |-> "", ret |-> <<>>]
    ELSE IF \E i \in 1..Len(o.body) : o.body[i].isNull
    THEN [throws |-> "TypeError", ret |-> <<>>]
    ELSE [throws |-> "", ret |-> [i \in 1..Len(o.body) |-> Normalize(o.body[i])]]

\* A plausible slip: the catch block swallows the timeout only.
addressAutocompleteSearchRethrow(query, o) ==
    IF Len(query) < 2 THEN [rejected |-> FALSE, value |-> <<>>]
    ELSE LET t == TryBlock(o)
         IN  IF t.throws = "" THEN [rejected |-> FALSE, value |-> t.ret]
             ELSE IF t.throws = "AbortError" THEN [rejected |-> FALSE, value |-> <<>>]
             ELSE [rejected |-> TRUE, value |-> <<>>]

\* The promise addressAutocompleteSearch(query) settles to when its network
\* call comes to o.
addressAutocompleteSearch(query, o) ==
    IF Len(query) < 2 THEN [rejected |-> FALSE, value |-> <<>>]
    ELSE LET t == TryBlock(o)
         IN  IF t.throws = "" THEN [rejected |-> FALSE, value |-> t.ret]
             ELSE [rejected |-> FALSE, value |-> <<>>]

\* ------------------------------------------- autocomplete controller state

\* Values the user leaves in the input when an input event fires.
TypedValues ==
    { <<>>, <<"a", " ">>, <<"a", "b">>, <<" ", "b", "c", " ">> }

VARIABLES
    inputValue,      \* input.value
    hasOnSelect,     \* options.onSelect was given
    debounceTimer,   \* id of the timer last started by the input handler, 0: none
    timers,          \* pending debounce timers: [id, query]
    currentRequest,  \* TRUE, or FALSE for null
    issued,          \* queries of the geocoding requests issued so far, in order
    inflight,        \* requests (indices of issued) not yet resolved
    lastResults,     \* let lastResults
    listShow,        \* the list carries class "show"
    listKind,        \* list.innerHTML: "empty", "notice", "error" or "items"
    rows,            \* the .autocomplete-item rows: [value, text]
    hideTimers,      \* pending 2-second timers of the "no results" notice
    nInputs,         \* input events so far
    lastInput,       \* input.value at the last input event
    bursts,          \* the bursts a timer firing ended: [query, events]
    burstLen,        \* input events of the burst no timer firing has ended yet
    lastRender,      \* the request the last step rendered, the newest issued by then
    shown,           \* the results the rows were rendered from
    lastOutcome,     \* what the last step resolved a request to, and on what outcome
    resolvedSince,   \* a request resolved since the last input event
    dismissed,       \* a selection or outside click since the last input event
    lastClick        \* the row handler run by the last step: row, what it showed, effects

acVars ==
    << inputValue, hasOnSelect, debounceTimer, timers, currentRequest, issued,
       inflight, lastResults, listShow, listKind, rows, hideTimers, nInputs,
       lastInput, bursts, burstLen, lastRender, shown, lastOutcome,
       resolvedSince, dismissed, lastClick >>

\* The trips page (trasferte.js).
VARIABLES
    api,             \* requests to the backend in flight: [id, kind]
    nReq,            \* requests issued so far
    nOps,            \* operations the user has started
    editModalOpen,   \* editTrasfertaModal is open
    trasferte,       \* let trasferte: the list load whose answer it holds, 0: none
    formResets,      \* the create form has been reset since it was last submitted
    toasts,          \* the toasts the last step showed, in order
    lastSubmit,      \* the submit handler run by the last step: form, fields, request

    allegato,        \* size in bytes of the file in trasferta-allegato, -1: no file
    lastAnswer,      \* the answer the last step handled: request kind, answer
    followUp,        \* what the last step did after the answer, in order
    lastFile         \* the size of the file the last step's change event chose, -1: none

formVars ==
    << api, nReq, nOps, editModalOpen, trasferte, formResets, toasts, lastSubmit,
       allegato, lastAnswer, followUp, lastFile >>

\* The create form's reimbursement estimate and distance lookup (trasferte.js).
VARIABLES
    veicoli,         \* let veicoli
    opzioniVeicolo,  \* the option values of the select trasferta-veicolo
    trasfertaKm,     \* trasferta-km.value
    trasfertaVeicolo,  \* trasferta-veicolo.value
    andataRitorno,   \* trasferta-andata-ritorno.checked
    rimborsoStimato, \* rimborso-stimato.textContent, in cents
    btnDisabled,     \* btn-calcola-distanza.disabled
    datiIniziali,    \* caricaDatiIniziali: "pending", "done" or "failed"
    lastCalcola,     \* the compute-distance click of the last step: addresses, request
    lastDistanza     \* the distance answer the last step handled, the distance before

stimaVars ==
    << veicoli, opzioniVeicolo, trasfertaKm, trasfertaVeicolo, andataRitorno,
       rimborsoStimato, btnDisabled, datiIniziali, lastCalcola, lastDistanza >>

\* The archive page (archivio.js).
VARIABLES
    allTrasferte,       \* let allTrasferte
    filteredTrasferte,  \* let filteredTrasferte
    selectedTrasferte,  \* let selectedTrasferte
    rendered,           \* the ids of the rows in trasferte-list, in order
    filtriBound,        \* applicaFiltri listens to the two quick selects
    cbChecked,          \* the ids of the rendered rows whose checkbox is checked
    cbSelectAll,        \* cb-select-all.checked
    quickYear,          \* quick-year-select.value, 0: all years
    quickMonth,         \* quick-month-select.value, -1: all months
    archApi,            \* requests of the archive page in flight
    archReq,            \* requests the archive page has issued
    archOps,            \* exports, downloads, searches and resets started so far
    archToasts,         \* the toasts the last step showed, in order
    lastOp              \* the handler run by the last step and what it found

archVars ==
    << allTrasferte, filteredTrasferte, selectedTrasferte, rendered, filtriBound,
       cbChecked, cbSelectAll, quickYear, quickMonth, archApi, archReq, archOps,
       archToasts, lastOp >>

\* The clients page (clienti.js).
VARIABLES
    currentEditId,      \* let currentEditId, 0: null
    clienteModalOpen,   \* the dialog clienteModal is open
    clienteForm,        \* the values of the fields of clienteForm
    clientiShown,       \* the load of the list whose answer the table shows, -1: none
    cliApi,             \* requests of the clients page in flight
    cliReq,             \* requests the clients page has issued
    cliOps,             \* edits, deletions and submits the user has started
    cliToasts,          \* the messages the last step showed, in order
    openedBy,           \* what opened the dialog that is open: "add", "edit", "none"
    lastCli             \* the handler run by the last step and the request it issued

clientiVars ==
    << currentEditId, clienteModalOpen, clienteForm, clientiShown, cliApi, cliReq,
       cliOps, cliToasts, openedBy, lastCli >>

\* The vehicles page (veicoli.js) with its edit modal and the keyboard handler
\* of accessibility.js.
VARIABLES
    veicoloEditId,      \* let veicoloEditId, 0: null
    editVeicoloId,      \* the value of the field edit-veicolo-id, 0: empty
    modalActive,        \* modal-edit-veicolo carries the class active
    overlayActive,      \* modal-overlay carries the class active
    modalAriaHidden,    \* modal-edit-veicolo carries aria-hidden="true"
    modalMarkup,        \* what the page's markup gives the modal, see Markups
    veicoliShown,       \* the load whose answer the list shows, -1: none
    veiApi,             \* requests of the vehicles page in flight
    veiReq,             \* requests the vehicles page has issued
    veiOps,             \* edits, deletions and submits the user has started
    veiToasts,          \* the toasts the last step showed, in order
    lastVei             \* the handler run by the last step

veicoliVars ==
    << veicoloEditId, editVeicoloId, modalActive, overlayActive, modalAriaHidden,
       modalMarkup, veicoliShown, veiApi, veiReq, veiOps, veiToasts, lastVei >>

\* What the autocomplete controller leaves alone.
pageVars == << formVars, stimaVars, archVars, clientiVars, veicoliVars >>

\* What the trips page leaves alone.
otherVars == << acVars, archVars, clientiVars, veicoliVars >>

vars == << acVars, formVars, stimaVars, archVars, clientiVars, veicoliVars >>

NoSugg == [name |-> Undef, type |-> Undef]
NoClick == [row |-> 0, text |-> <<>>, sugg |-> NoSugg, viaEnter |-> FALSE,
            wasOpen |-> FALSE, effects |-> <<>>]
NoOutcome == [kind |-> "none", rejected |-> FALSE, value |-> <<>>]

InitAC ==
    /\ inputValue = <<>>
    /\ hasOnSelect \in BOOLEAN
    /\ debounceTimer = 0
    /\ timers = {}
    /\ currentRequest = FALSE
    /\ issued = <<>>
    /\ inflight = {}
    /\ lastResults = <<>>
    /\ listShow = FALSE
    /\ listKind = "empty"
    /\ rows = <<>>
    /\ hideTimers = 0
    /\ nInputs = 0
    /\ lastInput = <<>>
    /\ bursts = <<>>
    /\ burstLen = 0
    /\ lastRender = [req |-> 0, newest |-> 0]
    /\ shown = <<>>
    /\ lastOutcome = NoOutcome
    /\ resolvedSince = FALSE
    /\ dismissed = FALSE
    /\ lastClick = NoClick

\* ---------------------------------------- autocomplete controller actions

NoRender == [req |-> 0, newest |-> 0]

\* A plausible slip: the pending timer is not cancelled.
clearTimeoutNoop(pending, id) == pending

\* clearTimeout(id) on the set of pending timers
clearTimeout(pending, id) == { t \in pending : t.id # id }

\* input.addEventListener('input', ...), up to the setTimeout call
Input(v) ==
    /\ UNCHANGED pageVars
    /\ nInputs < MaxInputs
    /\ LET query == Trim(v)
           pending == clearTimeout(timers, debounceTimer)
       IN  /\ inputValue' = v
           /\ currentRequest' = FALSE
           /\ IF Len(query) < 2
              THEN /\ timers' = pending
                   /\ debounceTimer' = debounceTimer
                   /\ listShow' = FALSE
                   /\ listKind' = "empty"
                   /\ rows' = <<>>
                   /\ shown' = <<>>
              ELSE /\ timers' = pending \cup {[id |-> nInputs + 1, query |-> query]}
                   /\ debounceTimer' = nInputs + 1
                   /\ UNCHANGED <<listShow, listKind, rows, shown>>
           /\ burstLen' = IF Len(query) < 2 THEN 0 ELSE burstLen + 1
    /\ nInputs' = nInputs + 1
    /\ lastInput' = v
    /\ resolvedSince' = FALSE
    /\ dismissed' = FALSE
    /\ lastRender' = NoRender
    /\ lastOutcome' = NoOutcome
    /\ lastClick' = NoClick
    /\ UNCHANGED <<hasOnSelect, issued, inflight, lastResults, hideTimers, bursts>>

\* The markup of the rows: escapeHtml of every name and type.
RowMarkup(risultati) ==
    [i \in 1..Len(risultati) |->
        [name |-> escapeHtml(risultati[i].name), type |-> escapeHtml(risultati[i].type)]]

RenderThrows(risultati) ==
    \E i \in 1..Len(risultati) :
        Thrown \in {RowMarkup(risultati)[i].name, RowMarkup(risultati)[i].type}

\* The rows the parser builds from list.innerHTML = risultati.map(...).join('')
RenderRows(risultati) ==
    [i \in 1..Len(risultati) |->
        [value |-> AttrValue(RowMarkup(risultati)[i].name),
         text |-> TextContent(RowMarkup(risultati)[i].name)]]

\* A plausible slip: the supersession check is left out.
StillCurrentAlways(cur) == TRUE

\* if (!currentRequest) return;
StillCurrent(cur) == cur

\* The debounce callback from the await on: request req has settled to res
\* while currentRequest holds cur.
Continuation(req, res, cur) ==
    /\ currentRequest' = FALSE
    /\ IF res.rejected
       THEN /\ listKind' = "error"
            /\ rows' = <<>>
            /\ shown' = <<>>
            /\ listShow' = TRUE
            /\ lastRender' = NoRender
            /\ UNCHANGED <<lastResults, hideTimers>>
       ELSE IF ~StillCurrent(cur)
       THEN /\ lastRender' = NoRender
            /\ UNCHANGED <<lastResults, listShow, listKind, rows, shown, hideTimers>>
       ELSE /\ lastResults' = res.value
            /\ lastRender' = [req |-> req, newest |-> Len(issued)]
            /\ listShow' = TRUE
            /\ IF Len(res.value) = 0
               THEN /\ listKind' = "notice"
                    /\ rows' = <<>>
                    /\ shown' = <<>>
                    /\ hideTimers' = hideTimers + 1
               ELSE IF RenderThrows(res.value)
               THEN /\ listKind' = "error"
                    /\ rows' = <<>>
                    /\ shown' = <<>>
                    /\ hideTimers' = hideTimers
               ELSE /\ listKind' = "items"
                    /\ rows' = RenderRows(res.value)
                    /\ shown' = res.value
                    /\ hideTimers' = hideTimers

\* The debounce timer fires: the callback up to its await.
DebounceFire(t) ==
    /\ UNCHANGED pageVars
    /\ t \in timers
    /\ timers' = timers \ {t}
    /\ IF Len(t.query) < 2
       THEN /\ Continuation(0, addressAutocompleteSearch(t.query, CHOOSE o \in Outcomes : TRUE), TRUE)
            /\ UNCHANGED <<issued, inflight>>
       ELSE /\ currentRequest' = TRUE
            /\ issued' = Append(issued, t.query)
            /\ inflight' = inflight \cup {Len(issued) + 1}
            /\ lastRender' = NoRender
            /\ UNCHANGED <<lastResults, listShow, listKind, rows, shown, hideTimers>>
    /\ IF burstLen > 0
       THEN /\ bursts' = Append(bursts, [query |-> Trim(lastInput), events |-> burstLen])
            /\ burstLen' = 0
       ELSE UNCHANGED <<bursts, burstLen>>
    /\ lastOutcome' = NoOutcome
    /\ lastClick' = NoClick
    /\ UNCHANGED <<inputValue, hasOnSelect, debounceTimer, nInputs, lastInput,
                   resolvedSince, dismissed>>

\* The network call of request req comes to o; the callback runs to its end.
Resolve(req, o) ==
    /\ UNCHANGED pageVars
    /\ req \in inflight
    /\ inflight' = inflight \ {req}
    /\ LET res == addressAutocompleteSearch(issued[req], o)
       IN  /\ Continuation(req, res, currentRequest)
           /\ lastOutcome' = [kind |-> o.kind, rejected |-> res.rejected, value |-> res.value]
    /\ resolvedSince' = TRUE
    /\ lastClick' = NoClick
    /\ UNCHANGED <<inputValue, hasOnSelect, debounceTimer, timers, issued, nInputs,
                   lastInput, bursts, burstLen, dismissed>>

\* setTimeout(() => list.classList.remove('show'), 2000) fires
HideTimerFire ==
    /\ UNCHANGED pageVars
    /\ hideTimers > 0
    /\ hideTimers' = hideTimers - 1
    /\ listShow' = FALSE
    /\ lastRender' = NoRender
    /\ lastOutcome' = NoOutcome
    /\ lastClick' = NoClick
    /\ UNCHANGED <<inputValue, hasOnSelect, debounceTimer, timers, currentRequest,
                   issued, inflight, lastResults, listKind, rows, nInputs, lastInput,
                   bursts, burstLen, shown, resolvedSince, dismissed>>

Effect(op, text, sugg) == [op |-> op, text |-> text, sugg |-> sugg]

\* A plausible slip: the change event is dispatched before the callback runs.
ClickEffectsChangeFirst(i) ==
    << Effect("setValue", rows[i].value, NoSugg),
       Effect("hide", <<>>, NoSugg),
       Effect("empty", <<>>, NoSugg),
       Effect("change", <<>>, NoSugg) >>
    \o (IF hasOnSelect /\ i <= Len(lastResults)
        THEN << Effect("onSelect", rows[i].value, lastResults[i]) >>
        ELSE <<>>)

\* A plausible slip: the stored results are read at the row's 1-based position
\* plus one.
ClickEffectsNextIndex(i) ==
    << Effect("setValue", rows[i].value, NoSugg),
       Effect("hide", <<>>, NoSugg),
       Effect("empty", <<>>, NoSugg) >>
    \o (IF hasOnSelect /\ i + 1 <= Len(lastResults)
        THEN << Effect("onSelect", rows[i].value, lastResults[i + 1]) >>
        ELSE <<>>)
    \o << Effect("change", <<>>, NoSugg) >>

\* What the click handler of row i does, in order.
ClickEffects(i) ==
    << Effect("setValue", rows[i].value, NoSugg),
       Effect("hide", <<>>, NoSugg),
       Effect("empty", <<>>, NoSugg) >>
    \o (IF hasOnSelect /\ i <= Len(lastResults)
        THEN << Effect("onSelect", rows[i].value, lastResults[i]) >>
        ELSE <<>>)
    \o << Effect("change", <<>>, NoSugg) >>

\* item.addEventListener('click', ...) of row i
ItemClickHandler(i, viaEnter) ==
    /\ UNCHANGED pageVars
    /\ inputValue' = rows[i].value
    /\ listShow' = FALSE
    /\ listKind' = "empty"
    /\ rows' = <<>>
    /\ shown' = <<>>
    /\ dismissed' = TRUE
    /\ lastClick' = [row |-> i, text |-> rows[i].text, sugg |-> shown[i],
                     viaEnter |-> viaEnter, wasOpen |-> listShow,
                     effects |-> ClickEffects(i)]
    /\ lastRender' = NoRender
    /\ lastOutcome' = NoOutcome
    /\ UNCHANGED <<hasOnSelect, debounceTimer, timers, currentRequest, issued,
                   inflight, lastResults, hideTimers, nInputs, lastInput, bursts,
                   burstLen, resolvedSince>>

\* The user clicks row i of the open list.
ItemClick(i) ==
    /\ listShow
    /\ i \in 1..Len(rows)
    /\ ItemClickHandler(i, FALSE)

\* document.addEventListener('click', ...): a click on the input, inside the
\* list but on no row, or anywhere else.
DocumentClick(target) ==
    /\ UNCHANGED pageVars
    /\ target \in {"input", "list", "outside"}
    /\ target = "list" => listShow /\ listKind \in {"notice", "error"}
    /\ listShow' = IF target = "outside" THEN FALSE ELSE listShow
    /\ dismissed' = IF target = "outside" /\ listShow THEN TRUE ELSE dismissed
    /\ lastRender' = NoRender
    /\ lastOutcome' = NoOutcome
    /\ lastClick' = NoClick
    /\ UNCHANGED <<inputValue, hasOnSelect, debounceTimer, timers, currentRequest,
                   issued, inflight, lastResults, listKind, rows, hideTimers, nInputs,
                   lastInput, bursts, burstLen, shown, resolvedSince>>

\* input.addEventListener('keydown', ...) with e.key === 'Enter'
KeydownEnter ==
    IF rows # <<>>
    THEN ItemClickHandler(1, TRUE)
    ELSE /\ lastRender' = NoRender
         /\ lastOutcome' = NoOutcome
         /\ lastClick' = NoClick
         /\ UNCHANGED pageVars
         /\ UNCHANGED <<inputValue, hasOnSelect, debounceTimer, timers, currentRequest,
                        issued, inflight, lastResults, listShow, listKind, rows,
                        hideTimers, nInputs, lastInput, bursts, burstLen, shown,
                        resolvedSince, dismissed>>

\* ------------------------------------------------------ numeric fields

Digits == <<"0", "1", "2", "3", "4", "5", "6", "7", "8", "9">>

IsDigit(c) == \E k \in 1..10 : Digits[k] = c

\* The longest prefix of s made of digits.
RECURSIVE DigitPrefix(_)
DigitPrefix(s) ==
    IF s # <<>> /\ IsDigit(Head(s)) THEN <<Head(s)>> \o DigitPrefix(Tail(s)) ELSE <<>>

NaN == [nan |-> TRUE, neg |-> FALSE, int |-> <<>>, frac |-> <<>>]

\* parseFloat on signs, digits and the decimal point: leading blanks are
\* skipped and the longest numeric prefix is read; the digits are kept as
\* read.
parseFloat(s) ==
    LET t == TrimStart(s)
        neg == t # <<>> /\ Head(t) = "-"
        u == IF t # <<>> /\ Head(t) \in {"-", "+"} THEN Tail(t) ELSE t
        int == DigitPrefix(u)
        rest == SubSeq(u, Len(int) + 1, Len(u))
        frac == IF rest # <<>> /\ Head(rest) = "." THEN DigitPrefix(Tail(rest)) ELSE <<>>
    IN  IF int = <<>> /\ frac = <<>> THEN NaN
        ELSE [nan |-> FALSE, neg |-> neg, int |-> int, frac |-> frac]

\* parseInt(s), radix 10
parseInt(s) ==
    LET t == TrimStart(s)
        neg == t # <<>> /\ Head(t) = "-"
        u == IF t # <<>> /\ Head(t) \in {"-", "+"} THEN Tail(t) ELSE t
        int == DigitPrefix(u)
    IN  IF int = <<>> THEN NaN
        ELSE [nan |-> FALSE, neg |-> neg, int |-> int, frac |-> <<>>]

IsZero(x) ==
    /\ ~x.nan
    /\ \A i \in 1..Len(x.int) : x.int[i] = "0"
    /\ \A i \in 1..Len(x.frac) : x.frac[i] = "0"

\* !x for a number: NaN and zero are falsy.
FalsyNumber(x) == x.nan \/ IsZero(x)

\* x > 0
Positive(x) == ~x.nan /\ ~IsZero(x) /\ ~x.neg

\* ------------------------------------------------------------ trip forms

\* The fields the submit handlers inspect.  The names, the countries, the
\* notes and the round-trip flag travel in the payload unread.
TextFields ==
    {"data", "via_partenza", "citta_partenza", "via_arrivo", "citta_arrivo", "motivo"}

TextValues == {"", "x"}
CapValues ==
    { <<>>, <<"1", "2", "3", "4">>, <<"1", "2", "3", "4", "5">>,
      <<"1", "2", "3", "4", "5", "6">>, <<"1", "2", "3", "4", "a">> }
KmValues ==
    { <<>>, <<"0">>, <<"-", "5">>, <<"1", "2", ".", "5">>, <<"a">> }
VeicoloValues == { <<>>, <<"0">>, <<"3">> }

FilledForm ==
    [data |-> "x", via_partenza |-> "x", citta_partenza |-> "x",
     cap_partenza |-> <<"1", "2", "3", "4", "5">>, via_arrivo |-> "x",
     citta_arrivo |-> "x", cap_arrivo |-> <<"1", "2", "3", "4", "5">>,
     km |-> <<"1", "2", ".", "5">>, motivo |-> "x", veicolo |-> <<"3">>]

BlankForm ==
    [data |-> "", via_partenza |-> "", citta_partenza |-> "", cap_partenza |-> <<>>,
     via_arrivo |-> "", citta_arrivo |-> "", cap_arrivo |-> <<>>, km |-> <<>>,
     motivo |-> "", veicolo |-> <<>>]

FieldValues(k) ==
    IF k \in {"cap_partenza", "cap_arrivo"} THEN CapValues
    ELSE IF k = "km" THEN KmValues
    ELSE IF k = "veicolo" THEN VeicoloValues
    ELSE TextValues

\* The forms that differ from the filled-in form in at most n fields.
RECURSIVE Deviating(_)
Deviating(n) ==
    IF n = 0 THEN {FilledForm}
    ELSE UNION { { [f EXCEPT ![k] = v] : v \in FieldValues(k) } :
                    f \in Deviating(n - 1), k \in DOMAIN FilledForm }

\* The field values a submit event may find.
FormInputs == Deviating(MaxDeviations) \cup {BlankForm}

\* const data = {...}: the object the handler builds from the fields
ReadForm(f) ==
    [data |-> f.data, via_partenza |-> f.via_partenza,
     citta_partenza |-> f.citta_partenza, cap_partenza |-> f.cap_partenza,
     via_arrivo |-> f.via_arrivo, citta_arrivo |-> f.citta_arrivo,
     cap_arrivo |-> f.cap_arrivo, chilometri |-> parseFloat(f.km),
     motivo |-> f.motivo, veicolo_id |-> parseInt(f.veicolo)]

\* A plausible slip: the regular expression lacks its end anchor.
CapTestNoEnd(cap) ==
    Len(cap) >= 5 /\ \A i \in 1..5 : IsDigit(cap[i])

\* /^\d{5}$/.test(cap)
CapTest(cap) ==
    Len(cap) = 5 /\ \A i \in 1..5 : IsDigit(cap[i])

\* The create handler's first check: a required field is missing.
CreateMissing(d) ==
    \/ d.data = ""
    \/ d.via_partenza = ""
    \/ d.citta_partenza = ""
    \/ d.cap_partenza = <<>>
    \/ d.via_arrivo = ""
    \/ d.citta_arrivo = ""
    \/ d.cap_arrivo = <<>>
    \/ FalsyNumber(d.chilometri)
    \/ d.motivo = ""
    \/ FalsyNumber(d.veicolo_id)

Toast(msg, tipo) == [msg |-> msg, tipo |-> tipo]

\* The toasts of the create handler's validation; none: the request goes out.
CreateValidation(d) ==
    IF CreateMissing(d) THEN << Toast("Compila tutti i campi obbligatori", "warning") >>
    ELSE IF ~CapTest(d.cap_partenza)
    THEN << Toast("CAP partenza deve essere 5 cifre", "warning") >>
    ELSE IF ~CapTest(d.cap_arrivo)
    THEN << Toast("CAP arrivo deve essere 5 cifre", "warning") >>
    ELSE <<>>

\* The toasts of the edit handler's validation.
EditValidation(d) ==
    IF ~CapTest(d.cap_partenza)
    THEN << Toast("CAP partenza deve essere 5 cifre", "warning") >>
    ELSE IF ~CapTest(d.cap_arrivo)
    THEN << Toast("CAP arrivo deve essere 5 cifre", "warning") >>
    ELSE <<>>

NoSubmit == [form |-> "none", fields |-> BlankForm, issued |-> FALSE]

\* Identifiers the backend gives to created trips.
TripIds == {7, 8}

\* The error member of the JSON body of a refusal; "": the body has none.
BackendErrors == {"", "Veicolo non trovato"}

\* The answers of the backend to one request: success, carrying the
\* identifier of the record when there is one, or a refusal.
Answers(ids) ==
    { [ok |-> TRUE, status |-> 200, error |-> "", id |-> i] : i \in ids }
        \cup { [ok |-> FALSE, status |-> 400, error |-> e, id |-> 0] : e \in BackendErrors }

\* fetchApi on answer a: it resolves, or rejects with an Error of this message.
fetchApi(a) ==
    IF a.ok THEN [rejected |-> FALSE, message |-> ""]
    ELSE [rejected |-> TRUE,
          message |-> IF a.error # "" THEN a.error ELSE "HTTP " \o ToString(a.status)]

\* The answer a handler has received to a request of this kind.
Answered(kind, a) ==
    [kind |-> kind, ok |-> a.ok, status |-> a.status, error |-> a.error, id |-> a.id]

NoAnswer == [kind |-> "none", ok |-> TRUE, status |-> 0, error |-> "", id |-> 0]

NoFile == -1

\* 10 * 1024 * 1024
MaxFileSize == 10 * 1024 * 1024

\* Sizes of the files the user may choose.
FileSizes == {0, MaxFileSize - 1, MaxFileSize, MaxFileSize + 1}

\* A plausible slip: a file of exactly the ceiling is refused too.
TooLargeOrEqual(size) == size >= MaxFileSize

\* file.size > 10 * 1024 * 1024
TooLarge(size) == size > MaxFileSize

InitForm ==
    /\ api = {}
    /\ nReq = 0
    /\ nOps = 0
    /\ editModalOpen = FALSE
    /\ trasferte = 0
    /\ formResets = FALSE
    /\ toasts = <<>>
    /\ lastSubmit = NoSubmit
    /\ allegato = NoFile
    /\ lastAnswer = NoAnswer
    /\ followUp = <<>>
    /\ lastFile = NoFile

Request(kind) == [id |-> nReq + 1, kind |-> kind, trip |-> 0, size |-> 0]

\* fetch(`/api/trasferte/${trasferta_id}/allegato/upload`, ...) with the file
UploadRequest(trasferta_id, size) ==
    [id |-> nReq + 1, kind |-> "upload", trip |-> trasferta_id, size |-> size]

\* e.target.reset() and the lines after it: the create form as it was loaded.
ResetCreateForm ==
    /\ formResets' = TRUE
    /\ allegato' = NoFile
    /\ trasfertaKm' = <<>>
    /\ trasfertaVeicolo' = <<>>
    /\ andataRitorno' = FALSE
    /\ rimborsoStimato' = 0

\* The step runs no submit handler, handles no answer and no file choice.
NoSubmitStep == lastSubmit' = NoSubmit
NoAnswerStep == lastAnswer' = NoAnswer /\ followUp' = <<>>
NoFileStep == lastFile' = NoFile

\* The street, postal code and city of one side, as the click finds them.
FullAddress ==
    [via_partenza |-> <<"x">>, citta_partenza |-> <<"x">>, cap_partenza |-> <<"1">>,
     via_arrivo |-> <<"x">>, citta_arrivo |-> <<"x">>, cap_arrivo |-> <<"1">>]

NoCalcola == [clicked |-> FALSE, fields |-> FullAddress, issued |-> FALSE]
NoDistanza == [outcome |-> "none", error |-> "", km |-> <<>>, before |-> <<>>]

\* The step runs no compute-distance handler.
NoCalcolaStep == lastCalcola' = NoCalcola /\ lastDistanza' = NoDistanza

\* The step touches nothing of the estimate and of the distance lookup.
StimaIdle ==
    /\ NoCalcolaStep
    /\ UNCHANGED <<veicoli, opzioniVeicolo, trasfertaKm, trasfertaVeicolo,
                   andataRitorno, rimborsoStimato, btnDisabled, datiIniziali>>

\* form-trasferta submit handler, up to the await of the create request
SubmitCreate(f) ==
    /\ UNCHANGED otherVars
    /\ StimaIdle
    /\ nOps < MaxOps
    /\ ~editModalOpen
    /\ \E blocked \in {CreateValidation(ReadForm(f))} :
           /\ toasts' = blocked
           /\ lastSubmit' = [form |-> "create", fields |-> f, issued |-> blocked = <<>>]
           /\ IF blocked = <<>>
              THEN /\ api' = api \cup {Request("create")}
                   /\ nReq' = nReq + 1
                   /\ nOps' = nOps + 1
                   /\ formResets' = FALSE
              ELSE UNCHANGED <<api, nReq, nOps, formResets>>
    /\ NoAnswerStep
    /\ NoFileStep
    /\ UNCHANGED <<editModalOpen, trasferte, allegato>>

\* A plausible slip: the attachment is uploaded whatever the create came to.
UploadAfterAlways(a) == TRUE

\* The upload sits in the try block after the awaited create.
UploadAfter(a) == ~fetchApi(a).rejected

\* The create request is answered; the handler runs on to the upload's await
\* or to its end.
CreateResponse(r, a) ==
    /\ UNCHANGED otherVars
    /\ r \in api
    /\ r.kind = "create"
    /\ NoSubmitStep
    /\ NoFileStep
    /\ lastAnswer' = Answered("create", a)
    /\ IF UploadAfter(a) /\ allegato # NoFile
       THEN /\ api' = (api \ {r}) \cup {UploadRequest(a.id, allegato)}
            /\ nReq' = nReq + 1
            /\ toasts' = IF fetchApi(a).rejected THEN <<>>
                         ELSE << Toast("Trasferta salvata con successo", "success") >>
            /\ followUp' = << "upload" >>
            /\ UNCHANGED <<formResets, allegato>>
            /\ UNCHANGED <<trasfertaKm, trasfertaVeicolo, andataRitorno, rimborsoStimato>>
       ELSE IF fetchApi(a).rejected
       THEN /\ api' = api \ {r}
            /\ toasts' = << Toast("Errore salvataggio trasferta", "error") >>
            /\ followUp' = <<>>
            /\ UNCHANGED <<nReq, formResets, allegato>>
            /\ UNCHANGED <<trasfertaKm, trasfertaVeicolo, andataRitorno, rimborsoStimato>>
       ELSE /\ api' = (api \ {r}) \cup {Request("list")}
            /\ nReq' = nReq + 1
            /\ toasts' = << Toast("Trasferta salvata con successo", "success") >>
            /\ followUp' = << "reset", "list" >>
            /\ ResetCreateForm
    /\ UNCHANGED <<nOps, editModalOpen, trasferte>>
    /\ NoCalcolaStep
    /\ UNCHANGED <<veicoli, opzioniVeicolo, btnDisabled, datiIniziali>>

\* The toasts of caricaAllegatoTrasferta on answer a.
caricaAllegatoToasts(a) ==
    IF a.ok THEN << Toast("Allegato caricato con successo", "success") >>
    ELSE << Toast("Errore: " \o (IF a.error # "" THEN a.error ELSE "Errore upload"),
                  "error") >>

NoCatch == [toasts |-> <<>>, goesOn |-> TRUE]

\* A plausible slip: no try block around the upload, whose failure then
\* reaches the catch block of the whole handler.
UploadCatchOuter ==
    [toasts |-> << Toast("Errore salvataggio trasferta", "error") >>, goesOn |-> FALSE]

\* catch (error) { console.warn(...); mostraToast(...) }: the handler goes on
\* after the catch block.
UploadCatch ==
    [toasts |-> << Toast("Trasferta salvata, ma errore nell'upload allegato", "warning") >>,
     goesOn |-> TRUE]

\* The upload is answered: caricaAllegatoTrasferta settles and the create
\* handler runs to its end.
UploadResponse(r, a) ==
    /\ UNCHANGED otherVars
    /\ r \in api
    /\ r.kind = "upload"
    /\ NoSubmitStep
    /\ NoFileStep
    /\ lastAnswer' = Answered("upload", a)
    /\ \E c \in {IF a.ok THEN NoCatch ELSE UploadCatch} :
           /\ toasts' = caricaAllegatoToasts(a) \o c.toasts
           /\ IF c.goesOn
              THEN /\ api' = (api \ {r}) \cup {Request("list")}
                   /\ nReq' = nReq + 1
                   /\ followUp' = << "reset", "list" >>
                   /\ ResetCreateForm
              ELSE /\ api' = api \ {r}
                   /\ followUp' = <<>>
                   /\ UNCHANGED <<nReq, formResets, allegato>>
                   /\ UNCHANGED <<trasfertaKm, trasfertaVeicolo, andataRitorno,
                                  rimborsoStimato>>
    /\ UNCHANGED <<nOps, editModalOpen, trasferte>>
    /\ NoCalcolaStep
    /\ UNCHANGED <<veicoli, opzioniVeicolo, btnDisabled, datiIniziali>>

\* trasferta-allegato change handler; size is NoFile when the user chose none
FileChange(size) ==
    /\ UNCHANGED otherVars
    /\ StimaIdle
    /\ size \in FileSizes \cup {NoFile}
    /\ size # allegato
    /\ lastFile' = size
    /\ IF size # NoFile /\ TooLarge(size)
       THEN /\ toasts' = << Toast("File troppo grande (max 10 MB)", "error") >>
            /\ allegato' = NoFile
       ELSE /\ toasts' = <<>>
            /\ allegato' = size
    /\ NoSubmitStep
    /\ NoAnswerStep
    /\ UNCHANGED <<api, nReq, nOps, editModalOpen, trasferte, formResets>>

\* btn-rimuovi-allegato click handler
RimuoviAllegato ==
    /\ UNCHANGED otherVars
    /\ StimaIdle
    /\ allegato # NoFile
    /\ allegato' = NoFile
    /\ toasts' = <<>>
    /\ NoSubmitStep
    /\ NoAnswerStep
    /\ NoFileStep
    /\ UNCHANGED <<api, nReq, nOps, editModalOpen, trasferte, formResets>>

\* caricaTrasferte from its await on
ListResponse(r, a) ==
    /\ UNCHANGED otherVars
    /\ StimaIdle
    /\ r \in api
    /\ r.kind = "list"
    /\ NoSubmitStep
    /\ NoFileStep
    /\ lastAnswer' = Answered("list", a)
    /\ followUp' = <<>>
    /\ api' = api \ {r}
    /\ IF ~fetchApi(a).rejected
       THEN trasferte' = r.id /\ toasts' = <<>>
       ELSE /\ trasferte' = trasferte
            /\ toasts' = << Toast("Errore caricamento trasferte", "error") >>
    /\ UNCHANGED <<nReq, nOps, editModalOpen, formResets, allegato>>

\* apriFIenModificaTrasferta, up to its await
ApriModifica ==
    /\ UNCHANGED otherVars
    /\ StimaIdle
    /\ nOps < MaxOps
    /\ ~editModalOpen
    /\ api' = api \cup {Request("fetch")}
    /\ nReq' = nReq + 1
    /\ nOps' = nOps + 1
    /\ toasts' = <<>>
    /\ NoSubmitStep
    /\ NoAnswerStep
    /\ NoFileStep
    /\ UNCHANGED <<editModalOpen, trasferte, formResets, allegato>>

\* apriFIenModificaTrasferta from its await on
ApriModificaResponse(r, a) ==
    /\ UNCHANGED otherVars
    /\ StimaIdle
    /\ r \in api
    /\ r.kind = "fetch"
    /\ api' = api \ {r}
    /\ editModalOpen' = (~fetchApi(a).rejected \/ editModalOpen)
    /\ toasts' = IF ~fetchApi(a).rejected THEN <<>>
                 ELSE << Toast("Errore caricamento trasferta", "error") >>
    /\ NoSubmitStep
    /\ NoFileStep
    /\ lastAnswer' = Answered("fetch", a)
    /\ followUp' = <<>>
    /\ UNCHANGED <<nReq, nOps, trasferte, formResets, allegato>>

\* form-edit-trasferta submit handler, up to the await of the update request
SubmitEdit(f) ==
    /\ UNCHANGED otherVars
    /\ StimaIdle
    /\ nOps < MaxOps
    /\ editModalOpen
    /\ \E blocked \in {EditValidation(ReadForm(f))} :
           /\ toasts' = blocked
           /\ lastSubmit' = [form |-> "edit", fields |-> f, issued |-> blocked = <<>>]
           /\ IF blocked = <<>>
              THEN /\ api' = api \cup {Request("update")}
                   /\ nReq' = nReq + 1
                   /\ nOps' = nOps + 1
              ELSE UNCHANGED <<api, nReq, nOps>>
    /\ NoAnswerStep
    /\ NoFileStep
    /\ UNCHANGED <<editModalOpen, trasferte, formResets, allegato>>

\* The update request is answered; the edit handler runs to its end.
UpdateResponse(r, a) ==
    /\ UNCHANGED otherVars
    /\ StimaIdle
    /\ r \in api
    /\ r.kind = "update"
    /\ NoSubmitStep
    /\ NoFileStep
    /\ lastAnswer' = Answered("update", a)
    /\ IF ~fetchApi(a).rejected
       THEN /\ api' = (api \ {r}) \cup {Request("list")}
            /\ nReq' = nReq + 1
            /\ toasts' = << Toast("Trasferta modificata con successo", "success") >>
            /\ editModalOpen' = FALSE
            /\ followUp' = << "close", "list" >>
       ELSE /\ api' = api \ {r}
            /\ toasts' = << Toast("Errore modifica trasferta", "error") >>
            /\ followUp' = <<>>
            /\ UNCHANGED <<nReq, editModalOpen>>
    /\ UNCHANGED <<nOps, trasferte, formResets, allegato>>

\* elimineTrasferta(id), up to its await: confirmed is the answer to confirm()
EliminaTrasferta(confirmed) ==
    /\ UNCHANGED otherVars
    /\ StimaIdle
    /\ nOps < MaxOps
    /\ ~editModalOpen
    /\ IF confirmed
       THEN /\ api' = api \cup {Request("delete")}
            /\ nReq' = nReq + 1
            /\ nOps' = nOps + 1
       ELSE UNCHANGED <<api, nReq, nOps>>
    /\ toasts' = <<>>
    /\ NoSubmitStep
    /\ NoAnswerStep
    /\ NoFileStep
    /\ UNCHANGED <<editModalOpen, trasferte, formResets, allegato>>

\* btn-delete-trasferta click handler, up to its await
BtnDeleteTrasferta(confirmed) ==
    /\ UNCHANGED otherVars
    /\ StimaIdle
    /\ nOps < MaxOps
    /\ editModalOpen
    /\ IF confirmed
       THEN /\ api' = api \cup {Request("deleteEdit")}
            /\ nReq' = nReq + 1
            /\ nOps' = nOps + 1
       ELSE UNCHANGED <<api, nReq, nOps>>
    /\ toasts' = <<>>
    /\ NoSubmitStep
    /\ NoAnswerStep
    /\ NoFileStep
    /\ UNCHANGED <<editModalOpen, trasferte, formResets, allegato>>

\* The delete request is answered; elimineTrasferta, or the click handler of
\* btn-delete-trasferta, runs to its end.
DeleteResponse(r, a) ==
    /\ UNCHANGED otherVars
    /\ StimaIdle
    /\ r \in api
    /\ r.kind \in {"delete", "deleteEdit"}
    /\ NoSubmitStep
    /\ NoFileStep
    /\ lastAnswer' = Answered("delete", a)
    /\ IF ~fetchApi(a).rejected
       THEN /\ api' = (api \ {r}) \cup {Request("list")}
            /\ nReq' = nReq + 1
            /\ toasts' = << Toast("Trasferta eliminata", "success") >>
            /\ editModalOpen' = (editModalOpen /\ r.kind = "delete")
            /\ followUp' = IF r.kind = "delete" THEN << "list" >> ELSE << "close", "list" >>
       ELSE /\ api' = api \ {r}
            /\ toasts' = << Toast("Errore eliminazione trasferta", "error") >>
            /\ followUp' = <<>>
            /\ UNCHANGED <<nReq, editModalOpen>>
    /\ UNCHANGED <<nOps, trasferte, formResets, allegato>>

\* btn-cancel-edit click handler
CancelEdit ==
    /\ UNCHANGED otherVars
    /\ StimaIdle
    /\ editModalOpen
    /\ editModalOpen' = FALSE
    /\ toasts' = <<>>
    /\ NoSubmitStep
    /\ NoAnswerStep
    /\ NoFileStep
    /\ UNCHANGED <<api, nReq, nOps, trasferte, formResets, allegato>>

\* The filter fields as a click on btn-applica-filtri finds them.
FiltriInputs ==
    { [data_inizio |-> "", data_fine |-> "", veicolo_id |-> "", motivo |-> ""],
      [data_inizio |-> "x", data_fine |-> "x", veicolo_id |-> "", motivo |-> ""],
      [data_inizio |-> "", data_fine |-> "", veicolo_id |-> "3", motivo |-> "x"] }

\* The query string caricaTrasferte builds: the filters that are not empty.
QueryString(filtri) ==
    [k \in { k \in DOMAIN filtri : filtri[k] # "" } |-> filtri[k]]

\* caricaTrasferte(filtri) up to its await: the list request of a query
ListRequest(query) ==
    [id |-> nReq + 1, kind |-> "list", trip |-> 0, size |-> 0, query |-> query]

\* btn-applica-filtri click handler
ApplicaFiltri(filtri) ==
    /\ UNCHANGED otherVars
    /\ StimaIdle
    /\ nOps < MaxOps
    /\ ~editModalOpen
    /\ api' = api \cup {ListRequest(QueryString(filtri))}
    /\ nReq' = nReq + 1
    /\ nOps' = nOps + 1
    /\ toasts' = <<>>
    /\ NoSubmitStep
    /\ NoAnswerStep
    /\ NoFileStep
    /\ UNCHANGED <<editModalOpen, trasferte, formResets, allegato>>

\* btn-reset-filtri click handler: the four filters emptied, caricaTrasferte()
ResetFiltri ==
    /\ UNCHANGED otherVars
    /\ StimaIdle
    /\ nOps < MaxOps
    /\ ~editModalOpen
    /\ api' = api \cup {ListRequest(<<>>)}
    /\ nReq' = nReq + 1
    /\ nOps' = nOps + 1
    /\ toasts' = <<>>
    /\ NoSubmitStep
    /\ NoAnswerStep
    /\ NoFileStep
    /\ UNCHANGED <<editModalOpen, trasferte, formResets, allegato>>

\* ------------------------------------- estimate and distance lookup

\* The vehicles the backend lists; tariffa_km in ten-thousandths of a euro.
VeicoliBackend ==
    << [id |-> 3, tariffa_km |-> 4200], [id |-> 5, tariffa_km |-> 3865] >>

DigitValue(c) == CHOOSE k \in 0..9 : Digits[k + 1] = c

\* The number a sequence of digits writes.
RECURSIVE DigitsValue(_)
DigitsValue(s) ==
    IF s = <<>> THEN 0
    ELSE DigitsValue(SubSeq(s, 1, Len(s) - 1)) * 10 + DigitValue(s[Len(s)])

\* String(n) for a natural number
RECURSIVE ToDigits(_)
ToDigits(n) ==
    IF n < 10 THEN << Digits[n + 1] >>
    ELSE ToDigits(n \div 10) \o << Digits[(n % 10) + 1] >>

\* The integer a parsed number stands for.
IntValue(x) == (IF x.neg THEN -1 ELSE 1) * DigitsValue(x.int)

\* A parsed number in hundredths; distances carry at most two decimals.
Hundredths(x) ==
    (IF x.neg THEN -1 ELSE 1) *
        (DigitsValue(x.int) * 100 + DigitsValue(SubSeq(x.frac \o <<"0", "0">>, 1, 2)))

\* The text of a sequence of characters.
RECURSIVE Text(_)
Text(s) == IF s = <<>> THEN "" ELSE Head(s) \o Text(Tail(s))

\* formattaValuta, in cents, of an amount in millionths of a euro: two
\* decimals, halves rounded away from zero.
formattaValuta(importo) ==
    IF importo >= 0 THEN (importo + 5000) \div 10000
    ELSE -((5000 - importo) \div 10000)

\* The option values popolaDropdownVeicoli gives the select.
OptionValues(vs) == {<<>>} \cup { ToDigits(vs[i].id) : i \in 1..Len(vs) }

\* A plausible slip: the round-trip flag is not read.
KmPercorsiSolaAndata(km, checked) == km

\* if (andataRitornoCheckbox && andataRitornoCheckbox.checked) km = km * 2
KmPercorsi(km, checked) == IF checked THEN km * 2 ELSE km

\* aggiornaRimborso: the text it leaves in rimborso-stimato, which held
\* before until then.
aggiornaRimborso(kmValue, veicoloValue, checked, vs, before) ==
    LET parsed == parseFloat(kmValue)
        km == KmPercorsi(IF FalsyNumber(parsed) THEN 0 ELSE Hundredths(parsed), checked)
        vehicleId == parseInt(veicoloValue)
        found == { i \in 1..Len(vs) : vs[i].id = IntValue(vehicleId) }
    IN  IF FalsyNumber(vehicleId) \/ km <= 0 THEN 0
        ELSE IF found = {} THEN before
        ELSE formattaValuta(km * vs[CHOOSE i \in found : \A j \in found : i <= j].tariffa_km)

\* Values the user leaves in the distance field.
KmTyped == KmValues \cup { <<"1", "0", "0">>, <<"5", "0">> }

\* The addresses a click on the button may find: complete, or with one field
\* empty or blank.
AddressInputs ==
    {FullAddress} \cup
        UNION { { [FullAddress EXCEPT ![k] = v] : v \in { <<>>, <<" ">>, <<" ", "x">> } } :
                    k \in DOMAIN FullAddress }

\* The toasts of the handler's validation; none: the request goes out.
CalcolaValidation(f) ==
    IF Trim(f.via_partenza) = <<>> \/ Trim(f.citta_partenza) = <<>>
          \/ Trim(f.cap_partenza) = <<>>
    THEN << Toast("Inserisci indirizzo di partenza completo", "warning") >>
    ELSE IF Trim(f.via_arrivo) = <<>> \/ Trim(f.citta_arrivo) = <<>>
               \/ Trim(f.cap_arrivo) = <<>>
    THEN << Toast("Inserisci indirizzo di arrivo completo", "warning") >>
    ELSE <<>>

\* What the distance service answers: a refusal, or a body with an error,
\* a distance (a number, here as String writes it) and a method.
DistanzaAnswers ==
    { [ok |-> FALSE, status |-> 400, error |-> e, id |-> 0,
       result |-> [error |-> "", km |-> <<>>, metodo |-> ""]] : e \in BackendErrors }
    \cup
    { [ok |-> TRUE, status |-> 200, error |-> "", id |-> 0, result |-> b] :
        b \in [error : {"", "Indirizzo non trovato"},
               km : { <<>>, <<"0">>, <<"4", "2", ".", "5">> },
               metodo : {"", "osrm"}] }


InitStima ==
    /\ veicoli = <<>>
    /\ opzioniVeicolo = {<<>>}
    /\ trasfertaKm = <<>>
    /\ trasfertaVeicolo = <<>>
    /\ andataRitorno = FALSE
    /\ rimborsoStimato = 0
    /\ btnDisabled = FALSE
    /\ datiIniziali = "pending"
    /\ lastCalcola = NoCalcola
    /\ lastDistanza = NoDistanza

\* The step touches nothing of the create and edit handlers.
FormIdle ==
    /\ NoSubmitStep
    /\ NoAnswerStep
    /\ NoFileStep
    /\ UNCHANGED <<nOps, editModalOpen, trasferte, formResets, allegato>>

\* caricaDatiIniziali from its first await to its end.  reached tells how far
\* the chain of requests got: "config" (the first request failed), "veicoli"
\* (a request after that of the vehicles failed) or "all".
DatiIniziali(reached) ==
    /\ UNCHANGED otherVars
    /\ datiIniziali = "pending"
    /\ reached \in {"config", "veicoli", "all"}
    /\ veicoli' = IF reached = "config" THEN veicoli ELSE VeicoliBackend
    /\ IF reached = "all"
       THEN /\ opzioniVeicolo' = OptionValues(VeicoliBackend)
            /\ trasfertaVeicolo' = <<>>
            /\ api' = api \cup {Request("list")}
            /\ nReq' = nReq + 1
            /\ toasts' = <<>>
            /\ datiIniziali' = "done"
       ELSE /\ toasts' = << Toast("Errore caricamento dati", "error") >>
            /\ datiIniziali' = "failed"
            /\ UNCHANGED <<opzioniVeicolo, trasfertaVeicolo, api, nReq>>
    /\ FormIdle
    /\ NoCalcolaStep
    /\ UNCHANGED <<trasfertaKm, andataRitorno, rimborsoStimato, btnDisabled>>

\* The input listener of trasferta-km
KmInput(v) ==
    /\ UNCHANGED otherVars
    /\ v # trasfertaKm
    /\ trasfertaKm' = v
    /\ rimborsoStimato' =
          aggiornaRimborso(v, trasfertaVeicolo, andataRitorno, veicoli, rimborsoStimato)
    /\ toasts' = <<>>
    /\ FormIdle
    /\ NoCalcolaStep
    /\ UNCHANGED <<veicoli, opzioniVeicolo, trasfertaVeicolo, andataRitorno,
                   btnDisabled, datiIniziali, api, nReq>>

\* The change listener of trasferta-veicolo
VeicoloChange(v) ==
    /\ UNCHANGED otherVars
    /\ v \in opzioniVeicolo
    /\ v # trasfertaVeicolo
    /\ trasfertaVeicolo' = v
    /\ rimborsoStimato' =
          aggiornaRimborso(trasfertaKm, v, andataRitorno, veicoli, rimborsoStimato)
    /\ toasts' = <<>>
    /\ FormIdle
    /\ NoCalcolaStep
    /\ UNCHANGED <<veicoli, opzioniVeicolo, trasfertaKm, andataRitorno, btnDisabled,
                   datiIniziali, api, nReq>>

\* The change listener of trasferta-andata-ritorno
AndataRitornoChange ==
    /\ UNCHANGED otherVars
    /\ andataRitorno' = ~andataRitorno
    /\ rimborsoStimato' =
          aggiornaRimborso(trasfertaKm, trasfertaVeicolo, ~andataRitorno, veicoli,
                           rimborsoStimato)
    /\ toasts' = <<>>
    /\ FormIdle
    /\ NoCalcolaStep
    /\ UNCHANGED <<veicoli, opzioniVeicolo, trasfertaKm, trasfertaVeicolo, btnDisabled,
                   datiIniziali, api, nReq>>

\* btn-calcola-distanza click handler, up to its await
CalcolaDistanza(f) ==
    /\ UNCHANGED otherVars
    /\ nOps < MaxOps
    /\ ~btnDisabled
    /\ \E blocked \in {CalcolaValidation(f)} :
           /\ toasts' = blocked
           /\ lastCalcola' = [clicked |-> TRUE, fields |-> f, issued |-> blocked = <<>>]
           /\ IF blocked = <<>>
              THEN /\ btnDisabled' = TRUE
                   /\ api' = api \cup {Request("distanza")}
                   /\ nReq' = nReq + 1
                   /\ nOps' = nOps + 1
              ELSE UNCHANGED <<btnDisabled, api, nReq, nOps>>
    /\ NoSubmitStep
    /\ NoAnswerStep
    /\ NoFileStep
    /\ lastDistanza' = NoDistanza
    /\ UNCHANGED <<editModalOpen, trasferte, formResets, allegato>>
    /\ UNCHANGED <<veicoli, opzioniVeicolo, trasfertaKm, trasfertaVeicolo,
                   andataRitorno, rimborsoStimato, datiIniziali>>

\* What the try block of the handler comes to on answer d.
DistanzaOutcome(d) ==
    IF fetchApi(d).rejected THEN "rejected"
    ELSE IF d.result.error # "" THEN "error"
    ELSE IF d.result.km # <<>> /\ ~FalsyNumber(parseFloat(d.result.km)) THEN "km"
    ELSE "missing"

\* A plausible slip: the button is enabled again in the try block only.
DisabledAfterTryOnly(outcome) == outcome = "rejected"

\* finally { btn.disabled = false; ... }
DisabledAfter(outcome) == FALSE

\* The distance request is answered; the click handler runs to its end.
DistanzaResponse(r, d) ==
    /\ UNCHANGED otherVars
    /\ r \in api
    /\ r.kind = "distanza"
    /\ api' = api \ {r}
    \* the toasts are written without their leading pictograms
    /\ \E outcome \in {DistanzaOutcome(d)} :
           /\ lastDistanza' = [outcome |-> outcome, error |-> d.result.error,
                               km |-> d.result.km, before |-> trasfertaKm]
           /\ btnDisabled' = DisabledAfter(outcome)
           /\ IF outcome = "km"
              THEN /\ trasfertaKm' = d.result.km
                   /\ rimborsoStimato' =
                         aggiornaRimborso(d.result.km, trasfertaVeicolo, andataRitorno,
                                          veicoli, rimborsoStimato)
                   /\ toasts' =
                         << Toast("Distanza: " \o Text(d.result.km) \o " km ("
                                     \o (IF d.result.metodo # "" THEN d.result.metodo
                                         ELSE "automatico") \o ")", "success") >>
              ELSE /\ UNCHANGED <<trasfertaKm, rimborsoStimato>>
                   /\ toasts' =
                         IF outcome = "rejected"
                         THEN << Toast("Errore calcolo distanza", "error") >>
                         ELSE IF outcome = "error"
                         THEN << Toast("Errore: " \o d.result.error, "error") >>
                         ELSE << Toast("Impossibile calcolare la distanza", "warning") >>
    /\ NoSubmitStep
    /\ NoFileStep
    /\ lastAnswer' = Answered("distanza", d)
    /\ followUp' = <<>>
    /\ lastCalcola' = NoCalcola
    /\ UNCHANGED <<nReq, nOps, editModalOpen, trasferte, formResets, allegato>>
    /\ UNCHANGED <<veicoli, opzioniVeicolo, trasfertaVeicolo, andataRitorno,
                   datiIniziali>>

\* ------------------------------------------------------- archive page

\* The months the user picks in quick-month-select (0: January).
Months == {0, 5}

\* The trips the backend lists, as /api/trasferte returns them.
TripRecord(i) ==
    [id |-> i, anno |-> 2023 + (i % 2), mese |-> IF i % 3 = 0 THEN 0 ELSE 5,
     giorno |-> i, ha_allegato |-> i % 2 = 1]

TripsOnServer == [i \in 1..MaxTrips |-> TripRecord(i)]

\* new Date(t.data), as a number that orders the dates
DateOf(t) == t.anno * 10000 + t.mese * 100 + t.giorno

\* Inserting t into a sequence sorted by descending date, after its equals.
RECURSIVE InsertDesc(_, _)
InsertDesc(t, sorted) ==
    IF sorted = <<>> THEN << t >>
    ELSE IF DateOf(Head(sorted)) >= DateOf(t)
    THEN << Head(sorted) >> \o InsertDesc(t, Tail(sorted))
    ELSE << t >> \o sorted

\* allTrasferte.sort((a, b) => new Date(b.data) - new Date(a.data))
RECURSIVE SortDesc(_)
SortDesc(ts) ==
    IF ts = <<>> THEN <<>>
    ELSE InsertDesc(ts[Len(ts)], SortDesc(SubSeq(ts, 1, Len(ts) - 1)))

\* array.filter(t => P(t)) for the trips whose index is in keep
RECURSIVE FilterSeq(_, _)
FilterSeq(ts, keep) ==
    IF ts = <<>> THEN <<>>
    ELSE (IF 1 \in keep THEN << Head(ts) >> ELSE <<>>)
            \o FilterSeq(Tail(ts), { i - 1 : i \in keep \ {1} })

IdsOf(ts) == [i \in 1..Len(ts) |-> ts[i].id]
Range(seq) == { seq[i] : i \in 1..Len(seq) }

\* The years inizializzaFiltri offers.
Anni(ts) == { ts[i].anno : i \in 1..Len(ts) }

NoOp == [op |-> "none", chain |-> 0, issued |-> FALSE, sent |-> {},
         before |-> <<>>, href |-> <<>>]

InitArch ==
    /\ allTrasferte = <<>>
    /\ filteredTrasferte = <<>>
    /\ selectedTrasferte = {}
    /\ rendered = <<>>
    /\ filtriBound = FALSE
    /\ cbChecked = {}
    /\ cbSelectAll = FALSE
    /\ quickYear = 0
    /\ quickMonth = -1
    /\ archApi = {[id |-> 0, kind |-> "list", n |-> 0]}
    /\ archReq = 0
    /\ archOps = 0
    /\ archToasts = <<>>
    /\ lastOp = NoOp

\* What the archive page leaves alone.
notArchVars == << acVars, formVars, stimaVars, clientiVars, veicoliVars >>

\* A plausible slip: rendering drops the selected trips that are not shown.
VisualizzaPruning(ts) ==
    /\ filteredTrasferte' = ts
    /\ rendered' = IdsOf(ts)
    /\ cbChecked' = Range(IdsOf(ts)) \cap selectedTrasferte
    /\ cbSelectAll' = FALSE
    /\ selectedTrasferte' = selectedTrasferte \cap Range(IdsOf(ts))

\* A plausible slip: the new rows are left unchecked.
VisualizzaUnchecked(ts) ==
    /\ filteredTrasferte' = ts
    /\ rendered' = IdsOf(ts)
    /\ cbChecked' = {}
    /\ cbSelectAll' = FALSE
    /\ selectedTrasferte' = selectedTrasferte

\* visualizzaTutteLeTrasferte(ts) and setupCheckboxListeners: the new rows,
\* a row's checkbox checked when its id is selected, a new cb-select-all; the
\* selection is not touched.
Visualizza(ts) ==
    /\ filteredTrasferte' = ts
    /\ rendered' = IdsOf(ts)
    /\ cbChecked' = Range(IdsOf(ts)) \cap selectedTrasferte
    /\ cbSelectAll' = FALSE
    /\ selectedTrasferte' = selectedTrasferte

\* caricaTrasferte from its await on
ArchListResponse(r, ok) ==
    /\ UNCHANGED notArchVars
    /\ r \in archApi
    /\ r.kind = "list"
    /\ archApi' = archApi \ {r}
    /\ lastOp' = NoOp
    /\ IF ok
       THEN /\ allTrasferte' = SortDesc(TripsOnServer)
            /\ filtriBound' = TRUE
            /\ quickYear' = 0
            /\ quickMonth' = -1
            /\ Visualizza(SortDesc(TripsOnServer))
            /\ archToasts' = <<>>
       ELSE /\ archToasts' = << Toast("Errore caricamento trasferte", "error") >>
            /\ UNCHANGED <<allTrasferte, filtriBound, quickYear, quickMonth,
                           filteredTrasferte, rendered, cbChecked, cbSelectAll,
                           selectedTrasferte>>
    /\ UNCHANGED <<archReq, archOps>>

\* A plausible slip: the month is not looked at.
FiltrateSoloAnno(ts, anno, mese) ==
    FilterSeq(ts, { i \in 1..Len(ts) : anno # 0 => ts[i].anno = anno })

\* applicaFiltri's selection of the trips of allTrasferte
Filtrate(ts, anno, mese) ==
    FilterSeq(ts, { i \in 1..Len(ts) :
                       /\ anno # 0 => ts[i].anno = anno
                       /\ mese # -1 => ts[i].mese = mese })

\* The user picks a year and a month: applicaFiltri
FilterChange(anno, mese) ==
    /\ UNCHANGED notArchVars
    /\ filtriBound
    /\ anno \in Anni(allTrasferte) \cup {0}
    /\ mese \in Months \cup {-1}
    /\ (anno = quickYear) # (mese = quickMonth)
    /\ quickYear' = anno
    /\ quickMonth' = mese
    /\ Visualizza(Filtrate(allTrasferte, anno, mese))
    /\ archToasts' = <<>>
    /\ lastOp' = [NoOp EXCEPT !.op = "filter", !.before = rendered]
    /\ UNCHANGED <<allTrasferte, filtriBound, archApi, archReq, archOps>>

\* A plausible slip: the comparison is made before the set is updated.
AllSelectedStale(size, n, wasChecked) ==
    (IF wasChecked THEN size + 1 ELSE size - 1) = n

\* selectedTrasferte.size === trasferte.length
AllSelected(size, n, wasChecked) == size = n

\* The change listener of the checkbox of row id
RowToggle(id) ==
    /\ UNCHANGED notArchVars
    /\ id \in Range(rendered)
    /\ cbChecked' = IF id \in cbChecked THEN cbChecked \ {id} ELSE cbChecked \cup {id}
    /\ selectedTrasferte' =
          IF id \in cbChecked THEN selectedTrasferte \ {id}
          ELSE selectedTrasferte \cup {id}
    /\ cbSelectAll' = AllSelected(Cardinality(selectedTrasferte'), Len(rendered),
                                  id \in cbChecked)
    /\ archToasts' = <<>>
    /\ lastOp' = [NoOp EXCEPT !.op = "row",
                              !.chain = IF lastOp.chain = 1 /\ id \in cbChecked
                                        THEN 2 ELSE 0]
    /\ UNCHANGED <<allTrasferte, filteredTrasferte, rendered, filtriBound, quickYear,
                   quickMonth, archApi, archReq, archOps>>

\* The change listener of cb-select-all, which is checked or not
CheckboxAllChange(op, checked) ==
    /\ UNCHANGED notArchVars
    /\ rendered # <<>>
    /\ cbSelectAll' = checked
    /\ cbChecked' = IF checked THEN Range(rendered) ELSE {}
    /\ selectedTrasferte' =
          IF checked THEN selectedTrasferte \cup Range(rendered)
          ELSE selectedTrasferte \ Range(rendered)
    /\ archToasts' = <<>>
    /\ lastOp' = [NoOp EXCEPT !.op = op,
                              !.chain = IF checked /\ selectedTrasferte = {}
                                        THEN 1 ELSE 0]
    /\ UNCHANGED <<allTrasferte, filteredTrasferte, rendered, filtriBound, quickYear,
                   quickMonth, archApi, archReq, archOps>>

\* The user clicks cb-select-all.
CbSelectAllClick == CheckboxAllChange("cbAll", ~cbSelectAll)

\* btn-select-all click handler
BtnSelectAll == CheckboxAllChange("selectAll", TRUE)

\* btn-deselect-all click handler
BtnDeselectAll == CheckboxAllChange("deselectAll", FALSE)

\* A plausible slip: the handler does not look at the selection.
SelectionEmptyNever(selected) == FALSE

\* selectedTrasferte.size === 0
SelectionEmpty(selected) == Cardinality(selected) = 0

\* filteredTrasferte.filter(t => selectedTrasferte.has(t.id))
Selezionate(ts, selected) ==
    FilterSeq(ts, { i \in 1..Len(ts) : ts[i].id \in selected })

\* The format as the toasts write it: formato.toUpperCase()
UpperCase(formato) == IF formato = "excel" THEN "EXCEL" ELSE "PDF"

\* A request of the archive page for n trips; the step that issues it keeps
\* the identifiers of its body in lastOp.
ArchRequest(kind, n) == [id |-> archReq + 1, kind |-> kind, n |-> n]

\* btn-export-selezionati-excel and btn-export-selezionati-pdf click
\* handlers, with esportaSelezionate up to its await
ExportSelezionati(formato) ==
    /\ UNCHANGED notArchVars
    /\ archOps < MaxExports
    /\ formato \in {"excel", "pdf"}
    /\ \E ts \in {Selezionate(filteredTrasferte, selectedTrasferte)} :
           IF SelectionEmpty(selectedTrasferte)
           THEN /\ archToasts' = << Toast("Seleziona almeno una trasferta", "warning") >>
                /\ lastOp' = [NoOp EXCEPT !.op = formato]
                /\ UNCHANGED <<archApi, archReq, archOps>>
           ELSE IF Len(ts) = 0
           THEN /\ archToasts' = << Toast("Nessuna trasferta da esportare", "warning") >>
                /\ lastOp' = [NoOp EXCEPT !.op = formato]
                /\ UNCHANGED <<archApi, archReq, archOps>>
           ELSE /\ archToasts' =
                      << Toast("Generazione " \o UpperCase(formato) \o "...", "info") >>
                /\ archApi' = archApi \cup {ArchRequest(formato, Len(ts))}
                /\ archReq' = archReq + 1
                /\ archOps' = archOps + 1
                /\ lastOp' = [NoOp EXCEPT !.op = formato, !.issued = TRUE,
                                          !.sent = Range(IdsOf(ts))]
    /\ UNCHANGED <<allTrasferte, filteredTrasferte, selectedTrasferte, rendered,
                   filtriBound, cbChecked, cbSelectAll, quickYear, quickMonth>>

\* esportaSelezionate from its await on
ExportResponse(r, a) ==
    /\ UNCHANGED notArchVars
    /\ r \in archApi
    /\ r.kind \in {"excel", "pdf"}
    /\ archApi' = archApi \ {r}
    /\ archToasts' =
          IF a.ok
          THEN << Toast(UpperCase(r.kind) \o " esportato ("
                          \o ToString(r.n) \o " trasferte)", "success") >>
          ELSE << Toast(IF a.error # "" THEN a.error
                        ELSE "Errore durante l'export " \o UpperCase(r.kind), "error") >>
    /\ lastOp' = NoOp
    /\ UNCHANGED <<allTrasferte, filteredTrasferte, selectedTrasferte, rendered,
                   filtriBound, cbChecked, cbSelectAll, quickYear, quickMonth, archReq,
                   archOps>>

\* traferteIds.filter(...): the selected ids whose trip is in filteredTrasferte
\* and has an attachment
ConAllegati(ids, ts) ==
    { id \in ids : \E i \in 1..Len(ts) : ts[i].id = id /\ ts[i].ha_allegato }

\* btn-download-allegati-zip click handler, with scaricaAllegatiZip up to its
\* await
DownloadZip ==
    /\ UNCHANGED notArchVars
    /\ archOps < MaxExports
    /\ \E ids \in {ConAllegati(selectedTrasferte, filteredTrasferte)} :
           IF SelectionEmpty(selectedTrasferte)
           THEN /\ archToasts' = << Toast("Seleziona almeno una trasferta", "warning") >>
                /\ lastOp' = [NoOp EXCEPT !.op = "zip"]
                /\ UNCHANGED <<archApi, archReq, archOps>>
           ELSE IF ids = {}
           THEN /\ archToasts' =
                      << Toast("Nessun allegato disponibile nelle trasferte selezionate",
                               "warning") >>
                /\ lastOp' = [NoOp EXCEPT !.op = "zip"]
                /\ UNCHANGED <<archApi, archReq, archOps>>
           ELSE /\ archToasts' = <<>>
                /\ archApi' = archApi \cup {ArchRequest("zip", Cardinality(ids))}
                /\ archReq' = archReq + 1
                /\ archOps' = archOps + 1
                /\ lastOp' = [NoOp EXCEPT !.op = "zip", !.issued = TRUE, !.sent = ids]
    /\ UNCHANGED <<allTrasferte, filteredTrasferte, selectedTrasferte, rendered,
                   filtriBound, cbChecked, cbSelectAll, quickYear, quickMonth>>

\* scaricaAllegatiZip from its await on
ZipResponse(r, a) ==
    /\ UNCHANGED notArchVars
    /\ r \in archApi
    /\ r.kind = "zip"
    /\ archApi' = archApi \ {r}
    /\ archToasts' =
          IF a.ok
          THEN << Toast("ZIP scaricato con " \o ToString(r.n)
                          \o " allegati", "success") >>
          ELSE << Toast(IF a.error # "" THEN a.error ELSE "Errore durante il download",
                        "error") >>
    /\ lastOp' = NoOp
    /\ UNCHANGED <<allTrasferte, filteredTrasferte, selectedTrasferte, rendered,
                   filtriBound, cbChecked, cbSelectAll, quickYear, quickMonth, archReq,
                   archOps>>

Reverse(seq) == [i \in 1..Len(seq) |-> seq[Len(seq) + 1 - i]]

\* The lists /api/trasferte/ricerca answers with: the trips with an attachment,
\* oldest first, or none.
RicercaItems ==
    { <<>>,
      Reverse(Selezionate(SortDesc(TripsOnServer),
                          { i \in 1..MaxTrips : TripsOnServer[i].ha_allegato })) }

\* What cercaAvanzata gets from its fetch and response.json(): a body with
\* items, a body without, or a rejection.
RicercaAnswers ==
    { [rejected |-> FALSE, hasItems |-> TRUE, items |-> items] : items \in RicercaItems }
      \cup { [rejected |-> rejected, hasItems |-> FALSE, items |-> <<>>] :
                 rejected \in BOOLEAN }

\* btn-search click handler: cercaAvanzata up to its await
CercaAvanzata ==
    /\ UNCHANGED notArchVars
    /\ archOps < MaxSearches
    /\ archApi' = archApi \cup {ArchRequest("ricerca", 0)}
    /\ archReq' = archReq + 1
    /\ archOps' = archOps + 1
    /\ archToasts' = <<>>
    /\ lastOp' = [NoOp EXCEPT !.op = "ricerca", !.issued = TRUE]
    /\ UNCHANGED <<allTrasferte, filteredTrasferte, selectedTrasferte, rendered,
                   filtriBound, cbChecked, cbSelectAll, quickYear, quickMonth>>

\* cercaAvanzata from its await on
RicercaResponse(r, a) ==
    /\ UNCHANGED notArchVars
    /\ r \in archApi
    /\ r.kind = "ricerca"
    /\ archApi' = archApi \ {r}
    /\ lastOp' = [NoOp EXCEPT !.op = "risultati", !.before = rendered]
    /\ IF a.rejected
       THEN /\ archToasts' = << Toast("Errore durante la ricerca", "error") >>
            /\ UNCHANGED <<filteredTrasferte, rendered, cbChecked, cbSelectAll,
                           selectedTrasferte>>
       ELSE IF a.hasItems
       THEN /\ Visualizza(a.items)
            /\ archToasts' =
                  << Toast("Trovate " \o ToString(Len(a.items)) \o " trasferte",
                           "success") >>
       ELSE /\ archToasts' = << Toast("Errore ricerca", "error") >>
            /\ UNCHANGED <<filteredTrasferte, rendered, cbChecked, cbSelectAll,
                           selectedTrasferte>>
    /\ UNCHANGED <<allTrasferte, filtriBound, quickYear, quickMonth, archReq, archOps>>

\* btn-reset-search click handler: resetRicerca, with caricaTrasferte up to its
\* await
ResetRicerca ==
    /\ UNCHANGED notArchVars
    /\ archOps < MaxSearches
    /\ archApi' = archApi \cup {ArchRequest("list", 0)}
    /\ archReq' = archReq + 1
    /\ archOps' = archOps + 1
    /\ archToasts' = << Toast("Ricerca resettata", "info") >>
    /\ lastOp' = [NoOp EXCEPT !.op = "reset", !.issued = TRUE]
    /\ UNCHANGED <<allTrasferte, filteredTrasferte, selectedTrasferte, rendered,
                   filtriBound, cbChecked, cbSelectAll, quickYear, quickMonth>>

\* new Date(anno, mese + 1, 0).getDate(): the last day of month mese (0: January)
UltimoGiorno(anno, mese) ==
    IF mese = 1
    THEN (IF (anno % 4 = 0 /\ anno % 100 # 0) \/ anno % 400 = 0 THEN 29 ELSE 28)
    ELSE IF mese \in {3, 5, 8, 10} THEN 30 ELSE 31

\* The query of the address btn-export-tutto and btn-export-pdf-tutto go to:
\* <<data_inizio, data_fine>> as <<year, month, day>> each, or none
ExportParams(anno, mese) ==
    IF anno # 0 /\ mese # -1
    THEN << <<anno, mese + 1, 1>>, <<anno, mese + 1, UltimoGiorno(anno, mese)>> >>
    ELSE IF anno # 0 THEN << <<anno, 1, 1>>, <<anno, 12, 31>> >>
    ELSE <<>>

\* btn-export-tutto and btn-export-pdf-tutto click handlers: the download the
\* window is sent to
ExportTutto(formato) ==
    /\ UNCHANGED notArchVars
    /\ formato \in {"excel", "pdf"}
    /\ archToasts' = <<>>
    /\ lastOp' = [NoOp EXCEPT !.op = "tutto",
                              !.href = << "/api/esporta-" \o formato,
                                          ExportParams(quickYear, quickMonth) >>]
    /\ UNCHANGED <<allTrasferte, filteredTrasferte, selectedTrasferte, rendered,
                   filtriBound, cbChecked, cbSelectAll, quickYear, quickMonth,
                   archApi, archReq, archOps>>

\* ------------------------------------------------------- clients page

\* The identifiers of the clients the backend holds.
ClientiBackend == {1, 2}

\* The client /api/clienti/<id> answers with.
ClienteRecord(id) ==
    [nome |-> <<"c", ToString(id)>>, via |-> <<"v">>, citta |-> <<"t">>,
     cap |-> <<"1">>, paese |-> <<"I">>]

\* clienteForm after reset(): the fields as the page declares them, empty.
ClienteFormReset ==
    [nome |-> <<>>, via |-> <<>>, citta |-> <<>>, cap |-> <<>>, paese |-> <<>>]

\* What the user enters for a new client: every field, or a blank name.
ClienteInputs ==
    { [nome |-> nome, via |-> <<"w">>, citta |-> <<"t">>, cap |-> <<"2">>,
       paese |-> <<"I">>] : nome \in { <<"n">>, <<" ">> } }

\* x || fallback on a field of the answer: absent and empty values are falsy.
OrElse(x, fallback) == IF x = <<>> THEN fallback ELSE x

\* The fields editCliente fills in from the parsed answer.
ClienteFields(cliente) ==
    [nome |-> OrElse(cliente.nome, <<>>), via |-> OrElse(cliente.via, <<>>),
     citta |-> OrElse(cliente.citta, <<>>), cap |-> OrElse(cliente.cap, <<>>),
     paese |-> OrElse(cliente.paese, <<"I", "t", "a", "l", "i", "a">>)]

\* What the fetch of editCliente and its r.json() come to: the client, a JSON
\* body without the client's members (a refusal), or a rejection.
ClienteAnswers(id) ==
    { [rejected |-> FALSE, cliente |-> ClienteRecord(id)],
      [rejected |-> FALSE, cliente |-> ClienteFormReset],
      [rejected |-> TRUE, cliente |-> ClienteFormReset] }

NoCli == [op |-> "none", issued |-> FALSE, method |-> "", id |-> 0]

InitClienti ==
    /\ currentEditId = 0
    /\ clienteModalOpen = FALSE
    /\ clienteForm = ClienteFormReset
    /\ clientiShown = -1
    /\ cliApi = {[id |-> 0, kind |-> "load", cliente |-> 0]}
    /\ cliReq = 0
    /\ cliOps = 0
    /\ cliToasts = <<>>
    /\ openedBy = "none"
    /\ lastCli = NoCli

\* What the clients page leaves alone.
notClientiVars == << acVars, formVars, stimaVars, archVars, veicoliVars >>

CliRequest(kind, id) == [id |-> cliReq + 1, kind |-> kind, cliente |-> id]

\* loadClienti from its fetch on: the table filled, or the error shown
LoadClientiResponse(r, a) ==
    /\ UNCHANGED notClientiVars
    /\ r \in cliApi
    /\ r.kind = "load"
    /\ cliApi' = cliApi \ {r}
    /\ IF a.ok
       THEN clientiShown' = r.id /\ cliToasts' = <<>>
       ELSE /\ clientiShown' = clientiShown
            /\ cliToasts' =
                  << "Errore nel caricamento dei clienti: HTTP " \o ToString(a.status) >>
    /\ lastCli' = NoCli
    /\ UNCHANGED <<currentEditId, clienteModalOpen, clienteForm, cliReq, cliOps,
                   openedBy>>

\* openAddModal
OpenAddModal ==
    /\ UNCHANGED notClientiVars
    /\ ~clienteModalOpen
    /\ currentEditId' = 0
    /\ clienteForm' = ClienteFormReset
    /\ clienteModalOpen' = TRUE
    /\ openedBy' = "add"
    /\ cliToasts' = <<>>
    /\ lastCli' = [NoCli EXCEPT !.op = "add"]
    /\ UNCHANGED <<clientiShown, cliApi, cliReq, cliOps>>

\* editCliente(id) up to its fetch: a click on the edit button of a row
EditCliente(id) ==
    /\ UNCHANGED notClientiVars
    /\ ~clienteModalOpen
    /\ clientiShown # -1
    /\ id \in ClientiBackend
    /\ cliOps < MaxOps
    /\ cliApi' = cliApi \cup {CliRequest("get", id)}
    /\ cliReq' = cliReq + 1
    /\ cliOps' = cliOps + 1
    /\ cliToasts' = <<>>
    /\ lastCli' = [NoCli EXCEPT !.op = "edit", !.issued = TRUE, !.method = "GET",
                                !.id = id]
    /\ UNCHANGED <<currentEditId, clienteModalOpen, clienteForm, clientiShown,
                   openedBy>>

\* editCliente from its fetch on.  showModal() on the dialog that is already
\* open as a modal returns or throws, as the browser has it; the assignments
\* before it have been made.
EditClienteResponse(r, a, throws) ==
    /\ UNCHANGED notClientiVars
    /\ r \in cliApi
    /\ r.kind = "get"
    /\ cliApi' = cliApi \ {r}
    /\ lastCli' = [NoCli EXCEPT !.op = "loaded", !.id = r.cliente]
    /\ IF a.rejected
       THEN /\ cliToasts' = << "Errore nel caricamento del cliente" >>
            /\ UNCHANGED <<currentEditId, clienteForm, clienteModalOpen, openedBy>>
       ELSE /\ currentEditId' = r.cliente
            /\ clienteForm' = ClienteFields(a.cliente)
            /\ clienteModalOpen' = TRUE
            /\ openedBy' = IF clienteModalOpen THEN openedBy ELSE "edit"
            /\ cliToasts' = IF clienteModalOpen /\ throws
                            THEN << "Errore nel caricamento del cliente" >>
                            ELSE <<>>
    /\ UNCHANGED <<clientiShown, cliReq, cliOps>>

\* The user fills in the fields of the open dialog.
ClienteInput(f) ==
    /\ UNCHANGED notClientiVars
    /\ clienteModalOpen
    /\ f \in ClienteInputs
    /\ f # clienteForm
    /\ clienteForm' = f
    /\ cliToasts' = <<>>
    /\ lastCli' = [NoCli EXCEPT !.op = "input"]
    /\ UNCHANGED <<currentEditId, clienteModalOpen, clientiShown, cliApi, cliReq,
                   cliOps, openedBy>>

\* if (!nome || !via || !citta || !cap || !paese), on the trimmed values
ClienteMissing(f) == \E k \in DOMAIN f : Trim(f[k]) = <<>>

\* let method = 'POST'; if (currentEditId) method = 'PUT'
SubmitMethod(editId) == IF editId # 0 THEN "PUT" ELSE "POST"

\* submitForm up to its fetch
SubmitCliente ==
    /\ UNCHANGED notClientiVars
    /\ clienteModalOpen
    /\ cliOps < MaxOps
    /\ IF ClienteMissing(clienteForm)
       THEN /\ cliToasts' = << "Compilare tutti i campi" >>
            /\ lastCli' = [NoCli EXCEPT !.op = "submit"]
            /\ UNCHANGED <<cliApi, cliReq, cliOps>>
       ELSE /\ cliToasts' = <<>>
            /\ cliApi' = cliApi \cup {CliRequest(SubmitMethod(currentEditId),
                                                 currentEditId)}
            /\ cliReq' = cliReq + 1
            /\ cliOps' = cliOps + 1
            /\ lastCli' = [NoCli EXCEPT !.op = "submit", !.issued = TRUE,
                                        !.method = SubmitMethod(currentEditId),
                                        !.id = currentEditId]
    /\ UNCHANGED <<currentEditId, clienteModalOpen, clienteForm, clientiShown,
                   openedBy>>

\* closeModal
CloseModalEffects ==
    /\ currentEditId' = 0
    /\ clienteForm' = ClienteFormReset
    /\ clienteModalOpen' = FALSE
    /\ openedBy' = "none"

\* submitForm from its fetch on
SubmitClienteResponse(r, a) ==
    /\ UNCHANGED notClientiVars
    /\ r \in cliApi
    /\ r.kind \in {"POST", "PUT"}
    /\ lastCli' = NoCli
    /\ IF a.ok
       THEN /\ cliToasts' = << IF currentEditId # 0 THEN "Cliente modificato"
                               ELSE "Cliente aggiunto" >>
            /\ CloseModalEffects
            /\ cliApi' = (cliApi \ {r}) \cup {CliRequest("load", 0)}
            /\ cliReq' = cliReq + 1
       ELSE /\ cliToasts' = << "Errore: HTTP " \o ToString(a.status) >>
            /\ cliApi' = cliApi \ {r}
            /\ UNCHANGED <<currentEditId, clienteForm, clienteModalOpen, openedBy,
                           cliReq>>
    /\ UNCHANGED <<clientiShown, cliOps>>

\* A click on the dialog's close button or on its backdrop: closeModal
CloseCliente ==
    /\ UNCHANGED notClientiVars
    /\ clienteModalOpen
    /\ CloseModalEffects
    /\ cliToasts' = <<>>
    /\ lastCli' = [NoCli EXCEPT !.op = "close"]
    /\ UNCHANGED <<clientiShown, cliApi, cliReq, cliOps>>

\* deleteCliente(id) up to its fetch
DeleteCliente(id, confirmed) ==
    /\ UNCHANGED notClientiVars
    /\ ~clienteModalOpen
    /\ clientiShown # -1
    /\ id \in ClientiBackend
    /\ cliOps < MaxOps
    /\ cliToasts' = <<>>
    /\ IF confirmed
       THEN /\ cliApi' = cliApi \cup {CliRequest("DELETE", id)}
            /\ cliReq' = cliReq + 1
            /\ cliOps' = cliOps + 1
            /\ lastCli' = [NoCli EXCEPT !.op = "delete", !.issued = TRUE,
                                        !.method = "DELETE", !.id = id]
       ELSE /\ lastCli' = [NoCli EXCEPT !.op = "delete"]
            /\ UNCHANGED <<cliApi, cliReq, cliOps>>
    /\ UNCHANGED <<currentEditId, clienteModalOpen, clienteForm, clientiShown,
                   openedBy>>

\* deleteCliente from its fetch on
DeleteClienteResponse(r, a) ==
    /\ UNCHANGED notClientiVars
    /\ r \in cliApi
    /\ r.kind = "DELETE"
    /\ lastCli' = NoCli
    /\ IF a.ok
       THEN /\ cliToasts' = << "Cliente eliminato" >>
            /\ cliApi' = (cliApi \ {r}) \cup {CliRequest("load", 0)}
            /\ cliReq' = cliReq + 1
       ELSE /\ cliToasts' =
                  << "Errore nell'eliminazione: HTTP " \o ToString(a.status) >>
            /\ cliApi' = cliApi \ {r}
            /\ cliReq' = cliReq
    /\ UNCHANGED <<currentEditId, clienteModalOpen, clienteForm, clientiShown,
                   cliOps, openedBy>>

\* ------------------------------------------------------ vehicles page

\* The identifiers of the vehicles the list shows.
VeicoliIds == { VeicoliBackend[i].id : i \in DOMAIN VeicoliBackend }

\* What the markup of a page can give a modal that mostraModal opens, as far
\* as the handlers read it.  dataModal: the element carries data-modal="open"
\* (the one selector of closeOpenModals that the class active does not
\* decide; show is a class no handler gives a modal).  modalClose: the modal
\* holds a .modal-close button.  closeSel: the first element in the modal
\* that matches [data-dismiss="modal"], .btn-close, [aria-label="Close"]:
\* "none", "same" (the .modal-close button) or "inert" (an element without a
\* closing handler).
Markups ==
    { m \in [dataModal : BOOLEAN, modalClose : BOOLEAN,
             closeSel : {"none", "same", "inert"}] :
        m.closeSel = "same" => m.modalClose }

\* class="modal" with a .modal-close button and nothing else.
PlainMarkup == [dataModal |-> FALSE, modalClose |-> TRUE, closeSel |-> "none"]

\* What fetchApi comes to: the parsed answer, or an Error with this message.
VeiAnswers ==
    { [ok |-> TRUE, message |-> ""],
      [ok |-> FALSE, message |-> "HTTP 409"],
      [ok |-> FALSE, message |-> "HTTP 500"] }

\* error.message.includes('409'), over the messages of VeiAnswers
Includes409(message) == message = "HTTP 409"

\* The values of edit-veicolo-tariffa after parseFloat.
TariffaInputs == {0, 1}

NoVei == [op |-> "none", issued |-> FALSE, method |-> "", id |-> 0]

InitVeicoli ==
    /\ veicoloEditId = 0
    /\ editVeicoloId = 0
    /\ modalActive = FALSE
    /\ overlayActive = FALSE
    /\ modalAriaHidden = FALSE
    /\ veicoliShown = -1
    /\ veiApi = {[id |-> 0, kind |-> "load", veicolo |-> 0]}
    /\ veiReq = 0
    /\ veiOps = 0
    /\ veiToasts = <<>>
    /\ lastVei = NoVei

\* What the vehicles page leaves alone.
notVeicoliVars == << acVars, formVars, stimaVars, archVars, clientiVars >>

VeiRequest(kind, id) == [id |-> veiReq + 1, kind |-> kind, veicolo |-> id]

\* mostraModal('modal-edit-veicolo')
MostraModal ==
    /\ modalActive' = TRUE
    /\ overlayActive' = TRUE

\* nascondiModal('modal-edit-veicolo')
NascondiModal ==
    /\ modalActive' = FALSE
    /\ overlayActive' = FALSE

\* caricaVeicoli from its fetchApi on
CaricaVeicoliResponse(r, a) ==
    /\ UNCHANGED notVeicoliVars
    /\ r \in veiApi
    /\ r.kind = "load"
    /\ veiApi' = veiApi \ {r}
    /\ IF a.ok
       THEN veicoliShown' = r.id /\ veiToasts' = <<>>
       ELSE veicoliShown' = veicoliShown
            /\ veiToasts' = << "Errore caricamento veicoli" >>
    /\ lastVei' = NoVei
    /\ UNCHANGED <<veicoloEditId, editVeicoloId, modalActive, overlayActive,
                   modalAriaHidden, modalMarkup, veiReq, veiOps>>

\* apriModalModificaVeicolo(id) up to its fetchApi: a click on Modifica
ApriModalModificaVeicolo(id) ==
    /\ UNCHANGED notVeicoliVars
    /\ ~overlayActive
    /\ veicoliShown # -1
    /\ id \in VeicoliIds
    /\ veiOps < MaxOps
    /\ veiApi' = veiApi \cup {VeiRequest("get", id)}
    /\ veiReq' = veiReq + 1
    /\ veiOps' = veiOps + 1
    /\ veiToasts' = <<>>
    /\ lastVei' = [NoVei EXCEPT !.op = "modifica", !.issued = TRUE,
                                !.method = "GET", !.id = id]
    /\ UNCHANGED <<veicoloEditId, editVeicoloId, modalActive, overlayActive,
                   modalAriaHidden, modalMarkup, veicoliShown>>

\* apriModalModificaVeicolo from its fetchApi on
ApriModalResponse(r, a) ==
    /\ UNCHANGED notVeicoliVars
    /\ r \in veiApi
    /\ r.kind = "get"
    /\ veiApi' = veiApi \ {r}
    /\ lastVei' = [NoVei EXCEPT !.op = "aperto", !.id = r.veicolo]
    /\ IF a.ok
       THEN /\ veicoloEditId' = r.veicolo
            /\ editVeicoloId' = r.veicolo
            /\ MostraModal
            /\ veiToasts' = <<>>
       ELSE /\ veiToasts' = << "Errore caricamento veicolo" >>
            /\ UNCHANGED <<veicoloEditId, editVeicoloId, modalActive, overlayActive>>
    /\ UNCHANGED <<modalAriaHidden, modalMarkup, veicoliShown, veiReq, veiOps>>

\* The submit handler of form-edit-veicolo up to its fetchApi
SubmitEditVeicolo(tariffa) ==
    /\ UNCHANGED notVeicoliVars
    /\ modalActive
    /\ veiOps < MaxOps
    /\ IF tariffa <= 0
       THEN /\ veiToasts' = << "La tariffa deve essere positiva" >>
            /\ lastVei' = [NoVei EXCEPT !.op = "submit"]
            /\ UNCHANGED <<veiApi, veiReq, veiOps>>
       ELSE /\ veiToasts' = <<>>
            /\ veiApi' = veiApi \cup {VeiRequest("put", editVeicoloId)}
            /\ veiReq' = veiReq + 1
            /\ veiOps' = veiOps + 1
            /\ lastVei' = [NoVei EXCEPT !.op = "submit", !.issued = TRUE,
                                        !.method = "PUT", !.id = editVeicoloId]
    /\ UNCHANGED <<veicoloEditId, editVeicoloId, modalActive, overlayActive,
                   modalAriaHidden, modalMarkup, veicoliShown>>

\* The submit handler of form-edit-veicolo from its fetchApi on
EditVeicoloResponse(r, a) ==
    /\ UNCHANGED notVeicoliVars
    /\ r \in veiApi
    /\ r.kind = "put"
    /\ lastVei' = NoVei
    /\ IF a.ok
       THEN /\ veiToasts' = << "Veicolo modificato con successo" >>
            /\ NascondiModal
            /\ veiApi' = (veiApi \ {r}) \cup {VeiRequest("load", 0)}
            /\ veiReq' = veiReq + 1
       ELSE /\ veiToasts' = << "Errore modifica veicolo" >>
            /\ veiApi' = veiApi \ {r}
            /\ UNCHANGED <<modalActive, overlayActive, veiReq>>
    /\ UNCHANGED <<veicoloEditId, editVeicoloId, modalAriaHidden, modalMarkup,
                   veicoliShown, veiOps>>

\* eliminaVeicolo(id) from a card, and the click handler of
\* btn-delete-veicolo in the modal, up to their fetchApi
DeleteVeicolo(fromModal, id, confirmed) ==
    /\ UNCHANGED notVeicoliVars
    /\ IF fromModal
       THEN modalActive /\ id = editVeicoloId
       ELSE ~overlayActive /\ veicoliShown # -1 /\ id \in VeicoliIds
    /\ veiOps < MaxOps
    /\ veiToasts' = <<>>
    /\ IF confirmed
       THEN /\ veiApi' = veiApi \cup
                  {VeiRequest(IF fromModal THEN "deleteModal" ELSE "deleteCard", id)}
            /\ veiReq' = veiReq + 1
            /\ veiOps' = veiOps + 1
            /\ lastVei' = [NoVei EXCEPT !.op = "elimina", !.issued = TRUE,
                                        !.method = "DELETE", !.id = id]
       ELSE /\ lastVei' = [NoVei EXCEPT !.op = "elimina"]
            /\ UNCHANGED <<veiApi, veiReq, veiOps>>
    /\ UNCHANGED <<veicoloEditId, editVeicoloId, modalActive, overlayActive,
                   modalAriaHidden, modalMarkup, veicoliShown>>

\* The two deletions from their fetchApi on
DeleteVeicoloResponse(r, a) ==
    /\ UNCHANGED notVeicoliVars
    /\ r \in veiApi
    /\ r.kind \in {"deleteModal", "deleteCard"}
    /\ lastVei' = NoVei
    /\ IF a.ok
       THEN /\ veiToasts' = << "Veicolo eliminato" >>
            /\ IF r.kind = "deleteModal"
               THEN NascondiModal
               ELSE UNCHANGED <<modalActive, overlayActive>>
            /\ veiApi' = (veiApi \ {r}) \cup {VeiRequest("load", 0)}
            /\ veiReq' = veiReq + 1
       ELSE /\ veiToasts' =
                  << IF Includes409(a.message)
                     THEN "Non puoi eliminare un veicolo con trasferte associate"
                     ELSE "Errore eliminazione veicolo" >>
            /\ veiApi' = veiApi \ {r}
            /\ UNCHANGED <<modalActive, overlayActive, veiReq>>
    /\ UNCHANGED <<veicoloEditId, editVeicoloId, modalAriaHidden, modalMarkup,
                   veicoliShown, veiOps>>

\* The click handler of btn-cancel-edit
BtnCancelEdit ==
    /\ UNCHANGED notVeicoliVars
    /\ modalActive
    /\ NascondiModal
    /\ veiToasts' = <<>>
    /\ lastVei' = [NoVei EXCEPT !.op = "cancel"]
    /\ UNCHANGED <<veicoloEditId, editVeicoloId, modalAriaHidden, modalMarkup,
                   veicoliShown, veiApi, veiReq, veiOps>>

\* The click handler of modal-overlay: every .modal.active and the overlay
\* lose the class active.
OverlayClick ==
    /\ UNCHANGED notVeicoliVars
    /\ overlayActive
    /\ modalActive' = FALSE
    /\ overlayActive' = FALSE
    /\ veiToasts' = <<>>
    /\ lastVei' = [NoVei EXCEPT !.op = "overlay"]
    /\ UNCHANGED <<veicoloEditId, editVeicoloId, modalAriaHidden, modalMarkup,
                   veicoliShown, veiApi, veiReq, veiOps>>

\* The click handler of a .modal-close button: its modal loses the class
\* active, and the overlay too when no modal is left with it.
ModalCloseEffects ==
    /\ modalActive' = FALSE
    /\ overlayActive' = FALSE

\* A click of the user on the .modal-close button of the open modal.
ModalCloseClick ==
    /\ UNCHANGED notVeicoliVars
    /\ modalActive
    /\ modalMarkup.modalClose
    /\ ModalCloseEffects
    /\ veiToasts' = <<>>
    /\ lastVei' = [NoVei EXCEPT !.op = "close"]
    /\ UNCHANGED <<veicoloEditId, editVeicoloId, modalAriaHidden, modalMarkup,
                   veicoliShown, veiApi, veiReq, veiOps>>

\* The modal is among querySelectorAll('[role="dialog"].show, .modal.show,
\* [data-modal="open"]'): no handler gives it the class show.
InOpenModals == modalMarkup.dataModal

\* closeOpenModals
CloseOpenModals ==
    IF ~InOpenModals
    THEN UNCHANGED <<modalActive, overlayActive, modalAriaHidden>>
    ELSE IF modalMarkup.closeSel = "same"
    THEN ModalCloseEffects /\ UNCHANGED modalAriaHidden
    ELSE IF modalMarkup.closeSel = "inert"
    THEN UNCHANGED <<modalActive, overlayActive, modalAriaHidden>>
    ELSE modalAriaHidden' = TRUE /\ UNCHANGED <<modalActive, overlayActive>>

\* The keydown handler for e.key === 'Escape'
EscapeKey ==
    /\ UNCHANGED notVeicoliVars
    /\ CloseOpenModals
    /\ veiToasts' = <<>>
    /\ lastVei' = [NoVei EXCEPT !.op = "escape"]
    /\ UNCHANGED <<veicoloEditId, editVeicoloId, modalMarkup, veicoliShown,
                   veiApi, veiReq, veiOps>>

\* --------------------------------------------------------- specifications

\* Every page after construction, the markup of the vehicles page left open.
InitPages == InitAC /\ InitForm /\ InitStima /\ InitArch /\ InitClienti /\ InitVeicoli

Init == InitPages /\ modalMarkup = PlainMarkup

\* The trips page with its address inputs bound as trasferte.js binds them,
\* with an onSelect callback.
InitTrips == Init /\ hasOnSelect

\* The archive page binds no address input.
InitArchive == Init /\ ~hasOnSelect

\* The autocomplete controller of one bound input.
NextAC ==
    \/ \E v \in TypedValues : Input(v)
    \/ \E t \in timers : DebounceFire(t)
    \/ \E req \in inflight, o \in Outcomes : Resolve(req, o)
    \/ HideTimerFire
    \/ \E i \in 1..Len(rows) : ItemClick(i)
    \/ \E target \in {"input", "list", "outside"} : DocumentClick(target)
    \/ KeydownEnter

\* The trip create and edit forms, without attachments.
NextForm ==
    \/ \E f \in FormInputs : SubmitCreate(f)
    \/ \E r \in api, a \in Answers(TripIds) : CreateResponse(r, a)
    \/ \E r \in api, a \in Answers({0}) : ListResponse(r, a)
    \/ ApriModifica
    \/ \E r \in api, a \in Answers({0}) : ApriModificaResponse(r, a)
    \/ \E f \in FormInputs : SubmitEdit(f)
    \/ \E r \in api, a \in Answers({0}) : UpdateResponse(r, a)
    \/ CancelEdit

\* The forms the save and delete flows are run on.
SaveInputs ==
    { FilledForm, BlankForm, [FilledForm EXCEPT !.cap_arrivo = <<"1", "2", "3", "4">>] }

\* Saving, updating and deleting trips, with attachments.
NextSave ==
    \/ \E f \in SaveInputs : SubmitCreate(f)
    \/ \E size \in FileSizes \cup {NoFile} : FileChange(size)
    \/ RimuoviAllegato
    \/ \E r \in api, a \in Answers(TripIds) : CreateResponse(r, a)
    \/ \E r \in api, a \in Answers({0}) : UploadResponse(r, a)
    \/ \E r \in api, a \in Answers({0}) : ListResponse(r, a)
    \/ ApriModifica
    \/ \E r \in api, a \in Answers({0}) : ApriModificaResponse(r, a)
    \/ \E f \in SaveInputs : SubmitEdit(f)
    \/ \E r \in api, a \in Answers({0}) : UpdateResponse(r, a)
    \/ \E confirmed \in BOOLEAN : EliminaTrasferta(confirmed)
    \/ \E confirmed \in BOOLEAN : BtnDeleteTrasferta(confirmed)
    \/ \E r \in api, a \in Answers({0}) : DeleteResponse(r, a)
    \/ CancelEdit

\* The reimbursement estimate and the distance lookup of the create form.
NextEstimate ==
    \/ \E reached \in {"config", "veicoli", "all"} : DatiIniziali(reached)
    \/ \E v \in KmTyped : KmInput(v)
    \/ \E v \in opzioniVeicolo : VeicoloChange(v)
    \/ AndataRitornoChange
    \/ \E f \in AddressInputs : CalcolaDistanza(f)
    \/ \E r \in api, d \in DistanzaAnswers : DistanzaResponse(r, d)
    \/ \E r \in api, a \in Answers({0}) : ListResponse(r, a)

\* The selection and the exports of the archive page.
NextArchive ==
    \/ \E r \in archApi, ok \in BOOLEAN : ArchListResponse(r, ok)
    \/ \E anno \in Anni(allTrasferte) \cup {0}, mese \in Months \cup {-1} :
          FilterChange(anno, mese)
    \/ \E id \in Range(rendered) : RowToggle(id)
    \/ CbSelectAllClick
    \/ BtnSelectAll
    \/ BtnDeselectAll
    \/ \E formato \in {"excel", "pdf"} : ExportSelezionati(formato)
    \/ \E r \in archApi, a \in Answers({0}) : ExportResponse(r, a)
    \/ DownloadZip
    \/ \E r \in archApi, a \in Answers({0}) : ZipResponse(r, a)

\* The quick filters, the advanced search and the selection of the archive page.
NextBrowse ==
    \/ \E r \in archApi, ok \in BOOLEAN : ArchListResponse(r, ok)
    \/ \E anno \in Anni(allTrasferte) \cup {0}, mese \in Months \cup {-1} :
          FilterChange(anno, mese)
    \/ \E id \in Range(rendered) : RowToggle(id)
    \/ CbSelectAllClick
    \/ BtnSelectAll
    \/ BtnDeselectAll
    \/ CercaAvanzata
    \/ \E r \in archApi, a \in RicercaAnswers : RicercaResponse(r, a)
    \/ ResetRicerca
    \/ \E formato \in {"excel", "pdf"} : ExportTutto(formato)

\* The loads of the trip list: filters, and reloads after a save or a delete.
NextLoads ==
    \/ \E filtri \in FiltriInputs : ApplicaFiltri(filtri)
    \/ ResetFiltri
    \/ \E r \in api, a \in Answers({0}) : ListResponse(r, a)
    \/ \E f \in SaveInputs : SubmitCreate(f)
    \/ \E r \in api, a \in Answers(TripIds) : CreateResponse(r, a)
    \/ \E confirmed \in BOOLEAN : EliminaTrasferta(confirmed)
    \/ \E r \in api, a \in Answers({0}) : DeleteResponse(r, a)

\* The clients page.
NextClienti ==
    \/ \E r \in cliApi, a \in Answers({0}) : LoadClientiResponse(r, a)
    \/ OpenAddModal
    \/ \E id \in ClientiBackend : EditCliente(id)
    \/ \E r \in cliApi : \E a \in ClienteAnswers(r.cliente), throws \in BOOLEAN :
          EditClienteResponse(r, a, throws)
    \/ \E f \in ClienteInputs : ClienteInput(f)
    \/ SubmitCliente
    \/ \E r \in cliApi, a \in Answers({0}) : SubmitClienteResponse(r, a)
    \/ CloseCliente
    \/ \E id \in ClientiBackend, confirmed \in BOOLEAN : DeleteCliente(id, confirmed)
    \/ \E r \in cliApi, a \in Answers({0}) : DeleteClienteResponse(r, a)

\* The vehicles page.
NextVeicoli ==
    \/ \E r \in veiApi, a \in VeiAnswers : CaricaVeicoliResponse(r, a)
    \/ \E id \in VeicoliIds : ApriModalModificaVeicolo(id)
    \/ \E r \in veiApi, a \in VeiAnswers : ApriModalResponse(r, a)
    \/ \E tariffa \in TariffaInputs : SubmitEditVeicolo(tariffa)
    \/ \E r \in veiApi, a \in VeiAnswers : EditVeicoloResponse(r, a)
    \/ \E fromModal \in BOOLEAN, id \in VeicoliIds, confirmed \in BOOLEAN :
          DeleteVeicolo(fromModal, id, confirmed)
    \/ \E r \in veiApi, a \in VeiAnswers : DeleteVeicoloResponse(r, a)
    \/ BtnCancelEdit
    \/ OverlayClick
    \/ ModalCloseClick
    \/ EscapeKey

Next == NextAC

Spec == Init /\ [][Next]_vars

SpecForm == InitTrips /\ [][NextForm]_vars

SpecSave == InitTrips /\ [][NextSave]_vars

SpecEstimate == InitTrips /\ [][NextEstimate]_vars

SpecArchive == InitArchive /\ [][NextArchive]_vars

SpecBrowse == InitArchive /\ [][NextBrowse]_vars

SpecLoads == InitTrips /\ [][NextLoads]_vars

SpecClienti == InitArchive /\ [][NextClienti]_vars

\* The vehicles page, whatever its markup.
InitVeicoliPage == InitPages /\ ~hasOnSelect /\ modalMarkup \in Markups

SpecVeicoli == InitVeicoliPage /\ [][NextVeicoli]_vars

\* ------------------------------------------------ autocomplete: claims

\* C1: a request after which another request has been issued is never
\* rendered into the suggestion list when it resolves.
C1_SupersededNeverRendered ==
    lastRender.req # 0 => lastRender.req = lastRender.newest

\* C2: a burst of input events with trimmed length >= 2, each arriving before
\* the previous debounce timer fires, issues exactly one request, carrying the
\* value of the burst's last event; at most one debounce timer is pending.
C2_OneRequestPerBurst ==
    /\ Cardinality(timers) <= 1
    /\ burstLen > 0 => timers = {[id |-> debounceTimer, query |-> Trim(lastInput)]}
    /\ Len(issued) = Len(bursts)
    /\ \A i \in 1..Len(issued) : issued[i] = bursts[i].query

\* A burst of two or more events has ended in its one request.
C2_Witness ==
    \E i \in 1..Len(bursts) :
        /\ bursts[i].events >= 2
        /\ i <= Len(issued)
        /\ issued[i] = bursts[i].query

\* C3: from an input event whose trimmed value is shorter than 2 characters
\* until the next input event, no debounce timer is pending, no request has
\* been issued for that value, and the list is empty and hidden.
C3_ShortQueryIdle ==
    (nInputs > 0 /\ Len(Trim(lastInput)) < 2) =>
        /\ timers = {}
        /\ \A i \in 1..Len(issued) : issued[i] # Trim(lastInput) /\ Len(issued[i]) >= 2
        /\ ~listShow
        /\ listKind = "empty"
        /\ rows = <<>>

\* After the short input an earlier request has resolved to suggestions.
C3_Witness ==
    /\ nInputs > 0
    /\ Len(Trim(lastInput)) < 2
    /\ resolvedSince
    /\ lastOutcome.kind = "array"
    /\ Len(lastOutcome.value) > 0

\* C4: addressAutocompleteSearch never rejects, and resolves to the empty
\* sequence on abort, transport failure, non-success status, a body that is
\* not JSON and JSON that is not an array.
C4_SearchNeverRejects ==
    /\ lastOutcome.kind # "none" => ~lastOutcome.rejected
    /\ lastOutcome.kind \in FailureKinds => lastOutcome.value = <<>>

\* A request has resolved on a body that is not valid JSON.
C4_Witness ==
    lastOutcome.kind = "badjson" /\ ~lastOutcome.rejected

\* C5: after a selection or a dismissal by an outside click, and until the
\* next input event, no debounce timer is pending, no in-flight request can
\* render, and the list is hidden.
C5_IdleAfterDismissal ==
    dismissed =>
        /\ timers = {}
        /\ ~(inflight # {} /\ currentRequest)
        /\ ~listShow

\* C6: Enter selects the first suggestion only when the list is open.
C6_EnterOnlyWhenOpen ==
    (lastClick.row # 0 /\ lastClick.viaEnter) => lastClick.wasOpen

\* C7: the click handler of a rendered row sets the input to the row's
\* display text, hides and empties the list, calls onSelect (when one was
\* given) once with the display text and the row's suggestion, and then
\* dispatches one change event, in that order.
C7_ClickEffects ==
    lastClick.row # 0 =>
        /\ inputValue = lastClick.text
        /\ ~listShow
        /\ listKind = "empty"
        /\ rows = <<>>
        /\ lastClick.effects =
              << Effect("setValue", lastClick.text, NoSugg),
                 Effect("hide", <<>>, NoSugg),
                 Effect("empty", <<>>, NoSugg) >>
              \o (IF hasOnSelect
                  THEN << Effect("onSelect", lastClick.text, lastClick.sugg) >>
                  ELSE <<>>)
              \o << Effect("change", <<>>, NoSugg) >>

\* The second row, whose name holds a double quote, was clicked with a
\* callback bound.
C7_Witness ==
    /\ lastClick.row = 2
    /\ hasOnSelect
    /\ lastClick.text = <<"\"", "b">>
    /\ ~lastClick.viaEnter

\* ---------------------------------------------------- trip forms: claims

\* What the claims require of a form before a request may go out.
RequiredFilled(f) ==
    /\ \A k \in TextFields : f[k] # ""
    /\ f.cap_partenza # <<>>
    /\ f.cap_arrivo # <<>>
    /\ f.veicolo # <<>>

FiveDigits(cap) ==
    /\ Len(cap) = 5
    /\ \A i \in 1..Len(cap) : cap[i] \in {"0", "1", "2", "3", "4", "5", "6", "7", "8", "9"}

\* C8: a create request is issued only if the date, both streets, cities and
\* postal codes, the reason and the vehicle are non-empty and the distance is
\* a number greater than zero; otherwise no request is issued and exactly one
\* warning is shown.
C8_CreateOnlyIfValid ==
    lastSubmit.form = "create" =>
        IF lastSubmit.issued
        THEN /\ RequiredFilled(lastSubmit.fields)
             /\ Positive(parseFloat(lastSubmit.fields.km))
        ELSE /\ Len(toasts) = 1
             /\ toasts[1].tipo = "warning"

\* C9: an update request is issued only if every required field, the reason
\* and the vehicle are non-empty and the distance is a number greater than
\* zero.
C9_UpdateOnlyIfValid ==
    (lastSubmit.form = "edit" /\ lastSubmit.issued) =>
        /\ RequiredFilled(lastSubmit.fields)
        /\ Positive(parseFloat(lastSubmit.fields.km))

\* C10: a create or update request is issued only if both postal codes are
\* exactly five digits; with "1234" as a postal code no request goes out and
\* a warning is shown, and an update with both postal codes "12345" goes out.
C10_PostalCodes ==
    /\ lastSubmit.issued =>
          /\ FiveDigits(lastSubmit.fields.cap_partenza)
          /\ FiveDigits(lastSubmit.fields.cap_arrivo)
    /\ (/\ lastSubmit.form # "none"
        /\ <<"1", "2", "3", "4">> \in
              {lastSubmit.fields.cap_partenza, lastSubmit.fields.cap_arrivo}) =>
          /\ ~lastSubmit.issued
          /\ Len(toasts) = 1
          /\ toasts[1].tipo = "warning"
    /\ (/\ lastSubmit.form # "none"
        /\ lastSubmit.fields.cap_partenza = <<"1", "2", "3", "4", "5">>
        /\ lastSubmit.fields.cap_arrivo = <<"1", "2", "3", "4", "5">>
        /\ lastSubmit.form = "create" => lastSubmit.fields = FilledForm) =>
          lastSubmit.issued

\* An update went out with both postal codes "12345" and no distance.
C10_Witness ==
    /\ lastSubmit.form = "edit"
    /\ lastSubmit.issued
    /\ lastSubmit.fields.cap_partenza = <<"1", "2", "3", "4", "5">>
    /\ lastSubmit.fields.cap_arrivo = <<"1", "2", "3", "4", "5">>
    /\ lastSubmit.fields.km = <<>>

\* ------------------------------------ estimate and distance: claims

\* The rate, in ten-thousandths of a euro, of the vehicle whose option is
\* selected.
RateOfSelected ==
    LET i == CHOOSE i \in 1..Len(VeicoliBackend) :
                 ToDigits(VeicoliBackend[i].id) = trasfertaVeicolo
    IN  VeicoliBackend[i].tariffa_km

\* The display is distance x (round-trip ? 2 : 1) x rate to the nearest cent,
\* and zero when no vehicle is selected or the distance is not positive.
EstimateMatchesFields ==
    IF trasfertaVeicolo # <<>> /\ Positive(parseFloat(trasfertaKm))
    THEN LET product == Hundredths(parseFloat(trasfertaKm))
                            * (IF andataRitorno THEN 2 ELSE 1) * RateOfSelected
         IN  /\ 10000 * rimborsoStimato - 5000 <= product
             /\ product < 10000 * rimborsoStimato + 5000
    ELSE rimborsoStimato = 0

\* C11: after any sequence of changes to the distance field, the vehicle
\* selection and the round-trip flag of the create form, the displayed
\* estimate is distance x (round-trip ? 2 : 1) x rate of the selected vehicle,
\* and zero when no vehicle is selected or the distance is not positive.
C11_EstimateFollowsFields ==
    /\ EstimateMatchesFields
    /\ trasfertaVeicolo \in opzioniVeicolo

\* Distance 100 and rate 0.42 with the round-trip flag set show 84.00.
C11_Witness ==
    /\ trasfertaKm = <<"1", "0", "0">>
    /\ trasfertaVeicolo = <<"3">>
    /\ andataRitorno
    /\ rimborsoStimato = 8400

C12_UploadAfterCreate ==
    [][\A q \in api' \ api :
          q.kind = "upload" =>
              /\ lastAnswer'.kind = "create"
              /\ lastAnswer'.ok
              /\ q.trip = lastAnswer'.id
              /\ \E r \in api \ api' : r.kind = "create"]_vars

\* An upload for the trip the backend numbered 8 is in flight.
C12_Witness ==
    \E q \in api : q.kind = "upload" /\ q.trip = 8

\* C13: when the attachment upload fails after a successful create, no
\* delete or other compensating request is issued for the created trip, a
\* warning is shown, and the form is reset and the trip list reloaded
\* exactly as on full success.
C13_UploadFailureWarns ==
    lastAnswer.kind = "upload" =>
        /\ followUp = << "reset", "list" >>
        /\ formResets
        /\ allegato = NoFile
        /\ \E q \in api : q.id = nReq /\ q.kind = "list"
        /\ \A q \in api : q.kind \in {"delete", "deleteEdit"} => q.id < nReq
        /\ ~lastAnswer.ok =>
              toasts[Len(toasts)] =
                  Toast("Trasferta salvata, ma errore nell'upload allegato", "warning")

\* An upload was refused with a message of the backend.
C13_Witness ==
    /\ lastAnswer.kind = "upload"
    /\ ~lastAnswer.ok
    /\ lastAnswer.error # ""

\* C14: no attachment upload is ever issued for a file larger than 10 MB:
\* selecting such a file clears the file input and shows an error
\* immediately, while a file of exactly 10 MB is kept.
C14_NoOversizedUpload ==
    /\ \A q \in api : q.kind = "upload" => q.size <= 10485760
    /\ allegato <= 10485760
    /\ lastFile > 10485760 =>
          /\ allegato = NoFile
          /\ Len(toasts) = 1
          /\ toasts[1].tipo = "error"
    /\ lastFile = 10485760 =>
          /\ allegato = 10485760
          /\ toasts = <<>>

\* A file of exactly 10 MB is being uploaded.
C14_Witness ==
    \E q \in api : q.kind = "upload" /\ q.size = 10485760

\* C15: when the backend rejects a trip create, update or delete with a
\* non-2xx status and a structured error message, the notification shown
\* carries that message verbatim and no follow-up action (form reset, modal
\* close, list reload) is performed.
C15_BackendMessageShown ==
    (/\ lastAnswer.kind \in {"create", "update", "delete"}
     /\ ~lastAnswer.ok
     /\ lastAnswer.error # "") =>
        /\ \E i \in 1..Len(toasts) : toasts[i].msg = lastAnswer.error
        /\ followUp = <<>>

\* ------------------------------------------------ archive page: claims

\* C17: in every state reachable by row toggles, select-all and deselect-all
\* actions and filter changes, the select-all checkbox is checked only when
\* the size of the selection set equals the number of rendered rows.
C17_SelectAllReflectsSelection ==
    cbSelectAll => Cardinality(selectedTrasferte) = Len(rendered)

\* C18: from an empty selection with n rendered rows, select-all yields a
\* selection set equal to the n rendered identifiers with every row checked;
\* unchecking one row afterwards yields a set of size n - 1 and an unchecked
\* select-all checkbox.
C18_SelectAllThenUncheck ==
    /\ lastOp.chain = 1 =>
          /\ selectedTrasferte = Range(rendered)
          /\ cbChecked = Range(rendered)
          /\ cbSelectAll
    /\ lastOp.chain = 2 =>
          /\ Cardinality(selectedTrasferte) = Len(rendered) - 1
          /\ Cardinality(cbChecked) = Len(rendered) - 1
          /\ ~cbSelectAll

\* One of all the rows was unchecked right after a select-all on an empty
\* selection.
C18_Witness ==
    /\ lastOp.chain = 2
    /\ Len(rendered) = Len(allTrasferte)
    /\ Len(rendered) >= 2

\* C19: with a non-empty selection, an export-selected action (Excel or PDF)
\* sends a request whose identifier list is exactly the selection set.
C19_ExportSendsSelection ==
    (lastOp.op \in {"excel", "pdf"} /\ selectedTrasferte # {}) =>
        /\ lastOp.issued
        /\ lastOp.sent = selectedTrasferte

\* C20: with an empty selection set, the export-selected Excel, the
\* export-selected PDF and the ZIP-download actions each show a warning and
\* issue no HTTP request.
C20_EmptySelectionBlocks ==
    [][(selectedTrasferte = {} /\ lastOp'.op \in {"excel", "pdf", "zip"}) =>
          /\ archApi' = archApi
          /\ archReq' = archReq
          /\ archToasts' = << Toast("Seleziona almeno una trasferta", "warning") >>]_vars

\* The ZIP download was asked for with nothing selected, the list loaded.
C20_Witness ==
    /\ lastOp.op = "zip"
    /\ selectedTrasferte = {}
    /\ rendered # <<>>
    /\ archToasts # <<>>

\* ------------------------------------------- archive page: browsing claims

\* C21: the selection set changes only in a row toggle, a click on the
\* select-all checkbox, "select all" or "deselect all": a quick filter, an
\* advanced search and its answer, a search reset, a reload of the list and an
\* export of everything leave it as it was.
C21_SelectionFrame ==
    [][selectedTrasferte' # selectedTrasferte
          => lastOp'.op \in {"row", "cbAll", "selectAll", "deselectAll"}]_vars

\* Search results have been rendered and a selected trip is not among them.
C21_Witness ==
    /\ lastOp.op = "risultati"
    /\ rendered # lastOp.before
    /\ selectedTrasferte \ Range(rendered) # {}

\* The trip at position i of the master list is of the chosen year, if one is
\* chosen, and of the chosen month, if one is chosen.
Matches(i, anno, mese) ==
    /\ anno # 0 => allTrasferte[i].anno = anno
    /\ mese # -1 => allTrasferte[i].mese = mese

\* The position in the master list of the trip with identifier id.
PositionOf(id) == CHOOSE i \in 1..Len(allTrasferte) : allTrasferte[i].id = id

\* C22: a quick filter renders exactly the trips of the master list that match
\* the chosen year and month, in the master list's order, issues no request and
\* leaves the master list as it was, whatever was rendered before.
C22_QuickFilter ==
    [][lastOp'.op = "filter"
          => /\ allTrasferte' = allTrasferte
             /\ archApi' = archApi
             /\ archReq' = archReq
             /\ Range(rendered')
                   = { allTrasferte[i].id :
                         i \in { j \in 1..Len(allTrasferte) :
                                    Matches(j, quickYear', quickMonth') } }
             /\ \A i, j \in 1..Len(rendered') :
                   i < j => PositionOf(rendered'[i]) < PositionOf(rendered'[j])
             /\ filteredTrasferte'
                   = [i \in 1..Len(rendered') |-> allTrasferte[PositionOf(rendered'[i])]]
      ]_vars

\* A year and a month are chosen while search results are shown, and some but
\* not all trips of the master list match.
C22_Witness ==
    /\ lastOp.op = "filter"
    /\ quickYear # 0
    /\ quickMonth # -1
    /\ \E items \in RicercaItems : items # <<>> /\ lastOp.before = IdsOf(items)
    /\ rendered # <<>>
    /\ Len(rendered) < Len(allTrasferte)

\* C30: the checkbox of a rendered row is checked exactly when the row's trip
\* is in the selection set, after every render and every toggle.
C30_CheckboxesShowSelection ==
    cbChecked = Range(rendered) \cap selectedTrasferte

\* A filter has rendered again a row selected before, checked, next to a row
\* that is not selected.
C30_Witness ==
    /\ lastOp.op = "filter"
    /\ cbChecked # {}
    /\ Range(rendered) \ cbChecked # {}

\* ------------------------------------ autocomplete: interleaving claims

\* No input event has been dispatched since the newest request was issued: the
\* timer the last input event started has fired and issued it.
NoInputSinceNewest ==
    /\ issued # <<>>
    /\ timers = {}
    /\ debounceTimer = nInputs

\* C24: when the most recently issued request resolves with a non-empty
\* result that can be rendered, and no input event was dispatched since it
\* was issued, its suggestions are rendered, whatever resolved before it.
C24_NewestRendered ==
    [][(/\ NoInputSinceNewest
        /\ Len(issued) \in inflight
        /\ Len(issued) \notin inflight'
        /\ lastOutcome'.value # <<>>
        /\ ~RenderThrows(lastOutcome'.value))
          => /\ listShow'
             /\ listKind' = "items"
             /\ shown' = lastOutcome'.value
             /\ lastRender'.req = Len(issued)]_vars

\* C25: the timer a "no results" notice started never hides a list of
\* suggestions rendered after the notice; stated for two requests, where the
\* suggestions are those of the request issued after the notice's.
C25_NoticeTimerHidesNotice ==
    [][(/\ hideTimers' < hideTimers
        /\ Len(issued) = 2
        /\ listShow
        /\ listKind = "items")
          => listShow']_vars

\* C29: the stored last results correspond index by index to the rendered
\* rows, and the suggestion a click hands to onSelect is the one whose name
\* the clicked row showed.
C29_ResultsMatchRows ==
    /\ rows # <<>> =>
          /\ Len(lastResults) = Len(rows)
          /\ \A i \in 1..Len(rows) : lastResults[i].name = Str(rows[i].text)
    /\ \A k \in 1..Len(lastClick.effects) :
          lastClick.effects[k].op = "onSelect"
              => lastClick.effects[k].sugg.name = Str(lastClick.text)

\* The first of two rows was clicked, with a callback bound, after a second
\* request had been issued and another request had resolved.
C29_Witness ==
    /\ lastClick.row = 1
    /\ hasOnSelect
    /\ Len(lastResults) = 2
    /\ Len(issued) >= 2
    /\ inflight # {}

\* ------------------------------------------- trips page: concurrency claims

\* C26: when the last trip-list load in flight is answered, the list held
\* and rendered is not replaced by the answer to a load issued before the
\* one whose answer was held: the most recently issued load wins.
C26_LatestLoadWins ==
    [][(/\ lastAnswer'.kind = "list"
        /\ lastAnswer'.ok
        /\ \A r \in api' : r.kind # "list")
          => trasferte' >= trasferte]_vars

\* C27: while a create request is in flight, a submit of the create form
\* issues no second create request.
C27_OneCreateInFlight ==
    [][(/\ lastSubmit'.form = "create"
        /\ \E r \in api : r.kind = "create")
          => ~lastSubmit'.issued]_vars

\* ---------------------------------------------------- clients page: claims

\* C28: while the dialog opened by openAddModal is open, a submit that
\* issues a request issues a create (POST), never an update (PUT), and the
\* fields the user has entered for the new client change only as the user
\* changes them, also when the answer to an earlier editCliente arrives.
C28_AddModalCreates ==
    [][/\ (openedBy' = "add" /\ lastCli'.op = "submit" /\ lastCli'.issued)
            => lastCli'.method = "POST"
       /\ (/\ openedBy = "add" /\ openedBy' = "add"
           /\ clienteForm \in ClienteInputs
           /\ clienteForm' # clienteForm)
            => lastCli'.op = "input"]_vars

\* ---------------------------------------------------- modals: claims

\* C23: when the modal that mostraModal opened is open, pressing Escape
\* closes it.
C23_EscapeClosesModal ==
    [][(modalActive /\ lastVei'.op = "escape") => ~modalActive']_vars

====
